---- MODULE Spec2Model ----
(***************************************************************************)
(* DzikiBoT motion core: tank_drive.c (reverse gate, ramp, EMA, ESC        *)
(* window) driven through its public API, with HAL_GetTick as a 32-bit     *)
(* millisecond counter and `float` as IEEE-754 binary32.                   *)
(***************************************************************************)
EXTENDS Integers, Sequences, FiniteSets, TLC

(***************************************************************************)
(* uint32_t: a value v is the pair <<v \div 2^16, v % 2^16>>, so that the  *)
(* counter keeps its full width.                                           *)
(***************************************************************************)
W16 == 2^16

U32(hi, lo) == <<hi, lo>>

\* a + n (mod 2^32) for 0 <= n < 2^16 (neutral_dwell_ms is a uint16_t)
U32Add(a, n) ==
  LET l == a[2] + n
  IN  <<(a[1] + l \div W16) % W16, l % W16>>

\* a - b (mod 2^32)
U32Sub(a, b) ==
  LET l == a[2] - b[2]
      borrow == IF l < 0 THEN 1 ELSE 0
  IN  <<(a[1] - b[1] - borrow + 2 * W16) % W16, (l + W16) % W16>>

\* v >= 0 without the cast to int32_t: true of every uint32_t
U32NonNeg(v) == v[1] >= 0

\* (int32_t)v >= 0
I32NonNeg(v) == v[1] < W16 \div 2

\* a + b (mod 2^32)
U32Plus(a, b) ==
  LET l == a[2] + b[2]
  IN  <<(a[1] + b[1] + l \div W16) % W16, l % W16>>

\* a >= n for 0 <= n < 2^16
U32Ge(a, n) == a[1] > 0 \/ a[2] >= n

\* a / n for 0 < n < 2^15, by long division on the two halves
U32Div(a, n) == <<a[1] \div n, ((a[1] % n) * W16 + a[2]) \div n>>

\* n * q (mod 2^32) for 0 <= n < 2^15
U32Times(n, q) ==
  LET l == n * q[2]
  IN  <<(n * q[1] + l \div W16) % W16, l % W16>>

(***************************************************************************)
(* float (binary32, round to nearest even): the value                      *)
(* (-1)^sg * mt * 2^ex with mt < 2^24, and mt >= 2^23 unless ex = -149     *)
(* (subnormals and zero).  Every operation is rounded on its own, as the   *)
(* C expressions of tank_drive.c are written.                              *)
(***************************************************************************)
P12 == 2^12
P23 == 2^23
P24 == 2^24
EMin == 0 - 149

Flt(sg, ex, mt) == [sg |-> sg, ex |-> ex, mt |-> mt]

\* the number of bits of v, for 0 <= v < 2^30
BitLen(v) == CHOOSE k \in 0..30 : v < 2^k /\ (k = 0 \/ v >= 2^(k - 1))

Max(a, b) == IF a >= b THEN a ELSE b
Min(a, b) == IF a <= b THEN a ELSE b

\* shift (hi*2^24 + lo) * 2^ex right until it fits 24 bits and ex >= EMin:
\* <<significand, exponent, g, st>>, g the last bit shifted out and st the
\* OR of the ones before it
FShR(hi, lo, ex) ==
  LET n == Max(BitLen(hi), EMin - ex)
  IN  IF n <= 0 THEN <<lo, ex, 0, 0>>
      ELSE IF n <= 24 THEN
        LET rem == lo % 2^n
        IN  <<hi * 2^(24 - n) + lo \div 2^n, ex + n, rem \div 2^(n - 1),
              IF rem % 2^(n - 1) # 0 THEN 1 ELSE 0>>
      ELSE IF n <= 54 THEN
        LET rem == hi % 2^(n - 24)
        IN  <<hi \div 2^(n - 24), ex + n, rem \div 2^(n - 25),
              IF rem % 2^(n - 25) # 0 \/ lo # 0 THEN 1 ELSE 0>>
      \* below a quarter of the smallest subnormal: only the sticky bit is left
      ELSE <<0, ex + n, 0, IF hi # 0 \/ lo # 0 THEN 1 ELSE 0>>

\* normalise a significand below 2^23 (exact)
FShL(lo, ex) ==
  LET k == IF lo = 0 THEN 0 ELSE Max(0, Min(24 - BitLen(lo), ex - EMin))
  IN  <<lo * 2^k, ex - k>>

\* the value of significand m at exponent ex, after rounding
FPack(sg, ex, m) ==
  IF m = 0 THEN Flt(sg, EMin, 0)
  ELSE IF m = P24 THEN Flt(sg, ex + 1, P23)
  ELSE Flt(sg, ex, m)

\* round to nearest, ties to even: n = <<significand, exponent>>
FRoundUp(sg, n, g, st) ==
  FPack(sg, n[2], IF g = 1 /\ (st = 1 \/ n[1] % 2 = 1) THEN n[1] + 1 ELSE n[1])

FRoundSh(sg, r) == FRoundUp(sg, FShL(r[1], r[2]), r[3], r[4])

\* round the exact value (-1)^sg * (hi*2^24 + lo) * 2^ex to binary32
FRound(sg, hi, lo, ex) == FRoundSh(sg, FShR(hi, lo, ex))

\* (float)i for an int8_t value
FFromInt(i) == FRound(IF i < 0 THEN 1 ELSE 0, 0, IF i < 0 THEN 0 - i ELSE i, 0)

FNeg(a) == Flt(1 - a.sg, a.ex, a.mt)

\* a * b
FMul(a, b) ==
  LET h1  == a.mt \div P12
      l1  == a.mt % P12
      h2  == b.mt \div P12
      l2  == b.mt % P12
      mid == h1 * l2 + l1 * h2
      low == l1 * l2 + (mid % P12) * P12
  IN  FRound((a.sg + b.sg) % 2, h1 * h2 + mid \div P12 + low \div P24,
             low % P24, a.ex + b.ex)

\* a + b
FAdd(a, b) ==
  LET x   == IF a.ex >= b.ex THEN a ELSE b
      y   == IF a.ex >= b.ex THEN b ELSE a
      d0  == x.ex - y.ex
      far == d0 > 26
      \* beyond 26 bits the smaller operand only decides the sticky bit
      d   == IF far THEN 26 ELSE d0
      ym  == IF far THEN (IF y.mt = 0 THEN 0 ELSE 1) ELSE y.mt
      ex  == x.ex - d
      xh  == IF d <= 24 THEN x.mt \div 2^(24 - d) ELSE x.mt * 2^(d - 24)
      xl  == IF d <= 24 THEN (x.mt % 2^(24 - d)) * 2^d ELSE 0
  IN  IF x.sg = y.sg
        THEN FRound(x.sg, xh + (xl + ym) \div P24, (xl + ym) % P24, ex)
      ELSE IF xh = 0 /\ xl = ym THEN Flt(0, EMin, 0)
      ELSE IF xh = 0 /\ xl < ym THEN FRound(y.sg, 0, ym - xl, ex)
      ELSE IF xl >= ym THEN FRound(x.sg, xh, xl - ym, ex)
      ELSE FRound(x.sg, xh - 1, xl + P24 - ym, ex)

FSub(a, b) == FAdd(a, FNeg(b))

\* |a| < |b|
FMagLt(a, b) == a.ex < b.ex \/ (a.ex = b.ex /\ a.mt < b.mt)

\* a < b
FLt(a, b) ==
  IF a.mt = 0 /\ b.mt = 0 THEN FALSE
  ELSE IF a.sg # b.sg THEN a.sg = 1
  ELSE IF a.sg = 0 THEN FMagLt(a, b)
  ELSE FMagLt(b, a)

\* (int8_t)a for a in [-100, 100]: truncation toward zero
FToInt8(a) ==
  LET mag == IF a.ex >= 0 THEN a.mt * 2^a.ex
             ELSE IF 0 - a.ex >= 24 THEN 0
             ELSE a.mt \div 2^(0 - a.ex)
  IN  IF a.sg = 1 THEN 0 - mag ELSE mag

F_0   == Flt(0, EMin, 0)
F_1   == FFromInt(1)
F_100 == FFromInt(100)


(***************************************************************************)
(* Integer helpers of C.                                                   *)
(***************************************************************************)
\* (int8_t)v
ToInt8(v) == ((v + 128) % 256) - 128

Abs(v) == IF v < 0 THEN 0 - v ELSE v

Sign(v) == IF v < 0 THEN 0 - 1 ELSE IF v > 0 THEN 1 ELSE 0

\* a / b of C (truncation toward zero), b > 0
CDiv(a, b) == IF a >= 0 THEN a \div b ELSE 0 - ((0 - a) \div b)

(***************************************************************************)
(* ConfigMotors_t values.  CfgDefault is g_cfg_motors of config.c; the     *)
(* others are parameter sets a build can supply in its place.              *)
(***************************************************************************)
F_0_20 == Flt(0, 0 - 26, 13421773)   \* 0.20f
F_0_50 == Flt(0, 0 - 24, P23)        \* 0.50f

CfgDefault ==
  [tick_ms |-> 20, neutral_dwell_ms |-> 500, ramp_step_pct |-> 4,
   reverse_threshold_pct |-> 5, smooth_alpha |-> F_0_20,
   left_scale |-> F_1, right_scale |-> F_1,
   esc_start_pct |-> 30, esc_max_pct |-> 60]

\* smoothing switched off (smooth_alpha = 0.0f), the rest as in config.c
CfgBypass == [CfgDefault EXCEPT !.smooth_alpha = F_0]

\* a steep ramp, so that a channel is at +-80 after two Updates
CfgSteep ==
  [CfgDefault EXCEPT !.ramp_step_pct = 40, !.smooth_alpha = F_0_50]

Configs == {CfgDefault, CfgBypass, CfgSteep}

(***************************************************************************)
(* Bounds of the model and the inputs the operations are called with.      *)
(***************************************************************************)
MaxUpdates == 3
MaxElapsed == 500

\* HAL_GetTick 300 ms before the counter wraps (2^32 - 300)
LateTick == U32(W16 - 1, W16 - 300)

\* milliseconds that pass between two calls
Steps == {250}

\* arguments of Tank_SetTarget
TargetArgs == {<<4, 0 - 4>>, <<0 - 4, 4>>, <<0, 0>>, <<100, 100>>}

\* arguments of the maneuver calls
PctArgs == {127}

(***************************************************************************)
(* State.                                                                  *)
(***************************************************************************)
VARIABLES
  cfg,            \* the ConfigMotors_t that CFG_Motors() returns
  C,              \* the cached pointer: 0 = NULL, 1 = CFG_Motors()
  s,              \* TD_State_t
  gate_L_active, gate_R_active, gate_L_until, gate_R_until,
  tick,           \* HAL_GetTick()
  esc_calls,      \* the calls to motor_bldc of the last operation that made any
  nUpd,           \* Updates executed; from MaxUpdates on only the parity of
                  \* the count is kept (MaxUpdates, MaxUpdates + 1, ...)
  elapsed,        \* milliseconds since boot
  gateAge,        \* per channel: ms since the Update that armed the gate
                  \* (at most neutral_dwell_ms), -1 when none is pending
  lastNZ,         \* per channel: sign of the last nonzero percentage written
                  \* and the ms for which the channel has been commanded 0
                  \* since then (at most neutral_dwell_ms)
  flip,           \* per channel: the last Update wrote a nonzero percentage
                  \* of the sign opposite to lastNZ after less than
                  \* neutral_dwell_ms of commanded 0
  stopCnt         \* per channel, since the last call that set both targets
                  \* to 0: need = ceil(|cur| / ramp_step_pct) at that call,
                  \* done = Updates executed since (at most need);
                  \* need = -1 when there was no such call
VARIABLES
  mx,             \* the argument map_logic_to_esc_window is called with
  mres,           \* what it returned for mx and for -mx; <<>> before the call
  call            \* the API call last made, as <<name, arguments>>;
                  \* <<>> before any

VARIABLES
  tTank,          \* app.c: when the motion task last ran (uint32_t ms)
  tSens,          \* ... the sensor task
  tOLED,          \* ... the OLED task
  tUART,          \* ... the UART panel task
  s_idx,          \* drive_test.c: index of the script step in progress
  s_t0,           \* HAL_GetTick() when that step began
  s_running,      \* the script is in progress
  period,         \* the period App_TaskDue is polled with
  polled          \* [now, due] of the last poll of App_TaskDue; <<>> before any

VARIABLES
  ran,            \* the tasks the last App_Tick ran, in the order it ran them
  s_sensPhase,    \* app.c: 0 = right sensors next, 1 = left
  jit,            \* app.c: s_lastTankExec, s_jMin, s_jMax, s_jSum, s_jCnt
  rate            \* n: motion task runs since App_Init; last: ms from
                  \* App_Init to the last App_Tick; ok: no App_Tick came
                  \* tick_ms or more after the one before

VARIABLES
  s_tx_rb,        \* debug_uart.c: the TX ring buffer, indexed from 0
  s_head,         \* where the next byte is enqueued
  s_tail,         \* where the next chunk starts
  s_tx_busy,      \* 1 = a chunk is on its way
  s_active_len,   \* the number of bytes of that chunk
  s_tx_dropped,   \* bytes refused because the buffer was full
  kick,           \* the try_kick_tx in progress in the main loop and in the
                  \* interrupt: where it stands ("idle" when none) and its
                  \* local copies of head and tail
  flight,         \* the bytes of the transmission HAL_UART_Transmit_IT
                  \* started and the UART has not completed; <<>> when none
  offered,        \* bytes passed to DebugUART_Write so far; byte number k
                  \* has the value k
  accepted,       \* the bytes DebugUART_Write enqueued, in order
  handed,         \* the bytes of the transmissions started, in order
  wret            \* [len, n] of the last DebugUART_Write: what it was
                  \* given and what it returned; <<>> before any

tank == <<cfg, C, s, gate_L_active, gate_R_active, gate_L_until, gate_R_until>>
env  == <<tick, esc_calls, nUpd, elapsed>>
hist == <<gateAge, lastNZ, flip, stopCnt>>
app  == <<tTank, tSens, tOLED, tUART>>
dtest == <<s_idx, s_t0, s_running>>
sched == <<ran, s_sensPhase, jit, rate>>
uart == <<s_tx_rb, s_head, s_tail, s_tx_busy, s_active_len, s_tx_dropped,
          kick, flight, offered, accepted, handed, wret>>
ext  == <<mx, mres, call, app, dtest, period, polled, sched, uart>>
vars == <<tank, env, hist, ext>>

StopNone == [need |-> 0 - 1, done |-> 0]

TD_Zero == [tgt_L |-> 0, tgt_R |-> 0, cur_L |-> 0, cur_R |-> 0,
            flt_L |-> F_0, flt_R |-> F_0]

Neutral == <<[ch |-> "ALL", pct |-> 0]>>

\* debug_uart.h lets the build set the size of the TX ring buffer; the
\* model is of a build with 4 bytes (1024, the default, is a power of two
\* as well)
DEBUG_UART_RB_SIZE == 4

\* the statics of debug_uart.c as DebugUART_Init leaves them, with nothing
\* written yet
UartReset ==
  /\ s_tx_rb = [i \in 0 .. DEBUG_UART_RB_SIZE - 1 |-> 0]
  /\ s_head = 0 /\ s_tail = 0
  /\ s_tx_busy = 0 /\ s_active_len = 0 /\ s_tx_dropped = 0
  /\ kick = [main |-> [at |-> "idle", head |-> 0, tail |-> 0],
             isr |-> [at |-> "idle", head |-> 0, tail |-> 0]]
  /\ flight = <<>> /\ offered = 0
  /\ accepted = <<>> /\ handed = <<>> /\ wret = <<>>

\* s_sensPhase and the jitter statistics as App_Init resets them, and the
\* debug UART as it initialises it
SchedReset ==
  /\ UartReset
  /\ ran = <<>> /\ s_sensPhase = 0
  /\ jit = [lastTankExec |-> U32(0, 0), jMin |-> U32(W16 - 1, W16 - 1),
            jMax |-> U32(0, 0), jSum |-> 0, jCnt |-> 0]
  /\ rate = [n |-> 0, last |-> 0, ok |-> TRUE]

\* The statics of app.c and drive_test.c at reset.
AppReset ==
  /\ tTank = U32(0, 0) /\ tSens = U32(0, 0)
  /\ tOLED = U32(0, 0) /\ tUART = U32(0, 0)
  /\ s_idx = 0 /\ s_t0 = U32(0, 0) /\ s_running = FALSE
  /\ period = 0 /\ polled = <<>>
  /\ SchedReset

\* The statics of tank_drive.c at reset (HAL_GetTick() = 0, C = NULL), or
\* the state that Tank_Init leaves when it is called late in the uptime.
Init ==
  /\ cfg \in Configs
  /\ s = TD_Zero
  /\ gate_L_active = 0 /\ gate_R_active = 0
  /\ gate_L_until = U32(0, 0) /\ gate_R_until = U32(0, 0)
  /\ \/ tick = U32(0, 0) /\ C = 0 /\ esc_calls = <<>>
     \/ tick = LateTick /\ C = 1 /\ esc_calls = Neutral
  /\ nUpd = 0
  /\ elapsed = 0
  /\ gateAge = [L |-> 0 - 1, R |-> 0 - 1]
  /\ lastNZ = [L |-> [sign |-> 0, zero |-> 0], R |-> [sign |-> 0, zero |-> 0]]
  /\ flip = [L |-> FALSE, R |-> FALSE]
  /\ stopCnt = [L |-> StopNone, R |-> StopNone]
  /\ mx = 0 /\ mres = <<>> /\ call = <<>>
  /\ AppReset

(***************************************************************************)
(* tank_drive.c helpers.                                                   *)
(***************************************************************************)
\* a faulty clamp: the value goes through unclamped
clamp_none(v, lo, hi) == ToInt8(v)

clamp_i8(v, lo, hi) ==
  LET v1 == IF v < lo THEN lo ELSE v
      v2 == IF v1 > hi THEN hi ELSE v1
  IN  ToInt8(v2)

clampf(v, lo, hi) ==
  LET v1 == IF FLt(v, lo) THEN lo ELSE v
  IN  IF FLt(hi, v1) THEN hi ELSE v1

\* faulty ramps: one that jumps to the target, one that is a unit short of
\* the step
ramp_jump(cur, tgt, step) == ToInt8(tgt)

ramp_short(cur, tgt, step) ==
  LET d0 == tgt - cur
      d  == IF d0 >= step THEN step - 1
            ELSE IF d0 <= 0 - step THEN 1 - step ELSE d0
  IN  ToInt8(cur + d)

\* a faulty ramp that always moves by the whole step
ramp_over(cur, tgt, step) ==
  ToInt8(IF tgt > cur THEN cur + step ELSE IF tgt < cur THEN cur - step
         ELSE cur)

\* the new *cur
ramp_once(cur, tgt, step) ==
  LET d0 == tgt - cur
      d  == IF d0 > step THEN step
            ELSE IF d0 < 0 - step THEN 0 - step ELSE d0
  IN  ToInt8(cur + d)

ema_step(prev, in, alpha) ==
  FAdd(FMul(FSub(F_1, alpha), prev), FMul(alpha, in))

\* faulty windows: one that passes x through, one that maps x = 0 to the
\* bottom of the window as well
map_linear(Cc, x) == x

map_no_neutral(Cc, x) ==
  LET start == Cc.esc_start_pct
      max   == Cc.esc_max_pct
      sign  == IF x < 0 THEN 0 - 1 ELSE 1
      mag   == IF x < 0 THEN 0 - x ELSE x
      e0    == start + CDiv((max - start) * mag, 100)
  IN  ToInt8(sign * (IF e0 > max THEN max ELSE e0))

\* more faulty windows: one that scales from 0 instead of from the bottom of
\* the window, one that rounds the scaled value down instead of toward
\* zero, one that runs the window from its top to its bottom
map_from_zero(Cc, x) ==
  LET sign == IF x < 0 THEN 0 - 1 ELSE 1
      mag  == IF x < 0 THEN 0 - x ELSE x
  IN  IF x = 0 THEN 0 ELSE ToInt8(sign * CDiv(Cc.esc_max_pct * mag, 100))

map_floor(Cc, x) ==
  LET sign == IF x < 0 THEN 0 - 1 ELSE 1
      e0   == sign * Cc.esc_start_pct
                + ((Cc.esc_max_pct - Cc.esc_start_pct) * x) \div 100
  IN  IF x = 0 THEN 0 ELSE ToInt8(e0)

map_top_down(Cc, x) ==
  LET sign == IF x < 0 THEN 0 - 1 ELSE 1
      mag  == IF x < 0 THEN 0 - x ELSE x
      e0   == Cc.esc_max_pct
                - CDiv((Cc.esc_max_pct - Cc.esc_start_pct) * mag, 100)
  IN  IF x = 0 THEN 0 ELSE ToInt8(sign * e0)

\* a faulty window that rounds the scaled value to the nearest integer
map_round(Cc, x) ==
  LET sign == IF x < 0 THEN 0 - 1 ELSE 1
      mag  == IF x < 0 THEN 0 - x ELSE x
      e0   == Cc.esc_start_pct
                + CDiv((Cc.esc_max_pct - Cc.esc_start_pct) * mag + 50, 100)
  IN  IF x = 0 THEN 0 ELSE ToInt8(sign * Min(Cc.esc_max_pct, e0))

map_logic_to_esc_window(Cc, x) ==
  LET start == Cc.esc_start_pct
      max   == Cc.esc_max_pct
      sign  == IF x < 0 THEN 0 - 1 ELSE 1
      mag   == IF x < 0 THEN 0 - x ELSE x
      e0    == start + CDiv((max - start) * mag, 100)
      e1    == IF e0 < start THEN start ELSE e0
      e2    == IF e1 > max THEN max ELSE e1
  IN  IF x = 0 THEN 0 ELSE ToInt8(sign * e2)

\* faulty gates: one that takes any change of sign for a reversal, one that
\* restarts the dwell each time it holds
gate_no_threshold(Cc, now, cur, tgt, gate_active, gate_until) ==
  IF gate_active # 0 /\ ~I32NonNeg(U32Sub(now, gate_until))
    THEN [ret |-> 0, active |-> gate_active, until |-> gate_until,
          br |-> "hold"]
  ELSE IF (cur > 0 /\ tgt < 0) \/ (cur < 0 /\ tgt > 0)
    THEN [ret |-> 0, active |-> 1,
          until |-> U32Add(now, Cc.neutral_dwell_ms), br |-> "arm"]
  ELSE [ret |-> tgt, active |-> 0, until |-> gate_until, br |-> "pass"]

gate_rearm(Cc, now, cur, tgt, gate_active, gate_until) ==
  IF gate_active # 0 /\ ~I32NonNeg(U32Sub(now, gate_until))
    THEN [ret |-> 0, active |-> gate_active,
          until |-> U32Add(now, Cc.neutral_dwell_ms), br |-> "hold"]
  ELSE IF (cur > ToInt8(Cc.reverse_threshold_pct)
             /\ tgt < 0 - ToInt8(Cc.reverse_threshold_pct))
          \/ (cur < 0 - ToInt8(Cc.reverse_threshold_pct)
                /\ tgt > ToInt8(Cc.reverse_threshold_pct))
    THEN [ret |-> 0, active |-> 1,
          until |-> U32Add(now, Cc.neutral_dwell_ms), br |-> "arm"]
  ELSE [ret |-> tgt, active |-> 0, until |-> gate_until, br |-> "pass"]

\* more faulty gates: one that compares HAL_GetTick() with gate_until as
\* plain unsigned numbers, one that never arms, one that arms again at
\* expiry whenever the target is not 0
gate_naive(Cc, now, cur, tgt, gate_active, gate_until) ==
  LET thr == ToInt8(Cc.reverse_threshold_pct)
      reached == \/ now[1] > gate_until[1]
                 \/ now[1] = gate_until[1] /\ now[2] >= gate_until[2]
  IN  IF gate_active # 0 /\ ~reached
        THEN [ret |-> 0, active |-> gate_active, until |-> gate_until,
              br |-> "hold"]
      ELSE IF (cur > thr /\ tgt < 0 - thr) \/ (cur < 0 - thr /\ tgt > thr)
        THEN [ret |-> 0, active |-> 1,
              until |-> U32Add(now, Cc.neutral_dwell_ms), br |-> "arm"]
      ELSE [ret |-> tgt, active |-> 0, until |-> gate_until, br |-> "pass"]

gate_never(Cc, now, cur, tgt, gate_active, gate_until) ==
  IF gate_active # 0 /\ ~I32NonNeg(U32Sub(now, gate_until))
    THEN [ret |-> 0, active |-> gate_active, until |-> gate_until,
          br |-> "hold"]
  ELSE [ret |-> tgt, active |-> 0, until |-> gate_until, br |-> "pass"]

gate_again(Cc, now, cur, tgt, gate_active, gate_until) ==
  LET thr == ToInt8(Cc.reverse_threshold_pct)
  IN  IF gate_active # 0 /\ ~I32NonNeg(U32Sub(now, gate_until))
        THEN [ret |-> 0, active |-> gate_active, until |-> gate_until,
              br |-> "hold"]
      ELSE IF \/ (cur > thr /\ tgt < 0 - thr) \/ (cur < 0 - thr /\ tgt > thr)
              \/ gate_active # 0 /\ tgt # 0
        THEN [ret |-> 0, active |-> 1,
              until |-> U32Add(now, Cc.neutral_dwell_ms), br |-> "arm"]
      ELSE [ret |-> tgt, active |-> 0, until |-> gate_until, br |-> "pass"]

\* a faulty gate that, once armed, holds forever
gate_stuck(Cc, now, cur, tgt, gate_active, gate_until) ==
  LET thr == ToInt8(Cc.reverse_threshold_pct)
  IN  IF gate_active # 0
        THEN [ret |-> 0, active |-> gate_active, until |-> gate_until,
              br |-> "hold"]
      ELSE IF (cur > thr /\ tgt < 0 - thr) \/ (cur < 0 - thr /\ tgt > thr)
        THEN [ret |-> 0, active |-> 1,
              until |-> U32Add(now, Cc.neutral_dwell_ms), br |-> "arm"]
      ELSE [ret |-> tgt, active |-> 0, until |-> gate_until, br |-> "pass"]

\* [ret: the gated target; active, until: the gate after the call;
\*  br: the branch taken]
apply_neutral_gate_one(Cc, now, cur, tgt, gate_active, gate_until) ==
  LET dwell_ms == Cc.neutral_dwell_ms
      thr      == ToInt8(Cc.reverse_threshold_pct)
  IN  IF gate_active # 0 /\ ~I32NonNeg(U32Sub(now, gate_until))
        THEN [ret |-> 0, active |-> gate_active, until |-> gate_until,
              br |-> "hold"]
      ELSE IF (cur > thr /\ tgt < 0 - thr) \/ (cur < 0 - thr /\ tgt > thr)
        THEN [ret |-> 0, active |-> 1, until |-> U32Add(now, dwell_ms),
              br |-> "arm"]
      ELSE [ret |-> tgt, active |-> 0, until |-> gate_until, br |-> "pass"]


(***************************************************************************)
(* Tank_Update: what one call computes for a channel.                      *)
(***************************************************************************)
\* a faulty step 1) that ramps to the gated target even while the gate is
\* active
update_cur_ramp(Cc, g, cur) == ramp_once(cur, g.ret, Cc.ramp_step_pct)

\* 1) the new cur: forced to 0 while the gate is active, else one ramp step
\* a faulty step 1) that keeps cur as it is while the gate is active
update_cur_keep(Cc, g, cur) ==
  IF g.active # 0 THEN cur ELSE ramp_once(cur, g.ret, Cc.ramp_step_pct)

update_cur(Cc, g, cur) ==
  IF g.active # 0 THEN 0 ELSE ramp_once(cur, g.ret, Cc.ramp_step_pct)

\* a faulty step 2) that runs the EMA whatever smooth_alpha is
update_flt_ema(Cc, flt, cur) == ema_step(flt, FFromInt(cur), Cc.smooth_alpha)

\* 2) the new flt
update_flt(Cc, flt, cur) ==
  IF FLt(F_0, Cc.smooth_alpha)
    THEN ema_step(flt, FFromInt(cur), Cc.smooth_alpha)
    ELSE FFromInt(cur)

\* 3), 4) compensation, ESC window: the percentage written
update_out(Cc, flt, scale) ==
  map_logic_to_esc_window(
    Cc, FToInt8(clampf(FMul(flt, scale), FNeg(F_100), F_100)))

\* a faulty Update whose right ramp is bypassed by the left gate
UpdOf_crossed(t, gLa, gLu, gRa, gRu) ==
  LET gL == apply_neutral_gate_one(cfg, tick, t.cur_L, t.tgt_L, gLa, gLu)
      gR == apply_neutral_gate_one(cfg, tick, t.cur_R, t.tgt_R, gRa, gRu)
      cL == update_cur(cfg, gL, t.cur_L)
      cR == update_cur(cfg, [gR EXCEPT !.active = gL.active], t.cur_R)
      fL == update_flt(cfg, t.flt_L, cL)
      fR == update_flt(cfg, t.flt_R, cR)
  IN  [gL |-> gL, gR |-> gR, cur_L |-> cL, cur_R |-> cR,
       flt_L |-> fL, flt_R |-> fR,
       out_L |-> update_out(cfg, fL, cfg.left_scale),
       out_R |-> update_out(cfg, fR, cfg.right_scale)]

\* what Tank_Update computes from the TD_State_t t and the two gates
UpdOf(t, gLa, gLu, gRa, gRu) ==
  LET gL == apply_neutral_gate_one(cfg, tick, t.cur_L, t.tgt_L, gLa, gLu)
      gR == apply_neutral_gate_one(cfg, tick, t.cur_R, t.tgt_R, gRa, gRu)
      cL == update_cur(cfg, gL, t.cur_L)
      cR == update_cur(cfg, gR, t.cur_R)
      fL == update_flt(cfg, t.flt_L, cL)
      fR == update_flt(cfg, t.flt_R, cR)
  IN  [gL |-> gL, gR |-> gR, cur_L |-> cL, cur_R |-> cR,
       flt_L |-> fL, flt_R |-> fR,
       out_L |-> update_out(cfg, fL, cfg.left_scale),
       out_R |-> update_out(cfg, fR, cfg.right_scale)]

Upd == UpdOf(s, gate_L_active, gate_L_until, gate_R_active, gate_R_until)

(***************************************************************************)
(* History of a channel, kept beside the program's state.                  *)
(***************************************************************************)
\* the percentage a channel of the ESC was last commanded
OutPct(ch) ==
  IF esc_calls = <<>> \/ esc_calls = Neutral THEN 0
  ELSE IF ch = "L" THEN esc_calls[1].pct ELSE esc_calls[2].pct

Aged(a, dt) == Min(cfg.neutral_dwell_ms, a + dt)

\* dt more ms of commanded 0, if 0 is what the channel is commanded
ZeroAged(ch, nz, dt) ==
  IF nz.sign = 0 \/ OutPct(ch) # 0 THEN nz
  ELSE [nz EXCEPT !.zero = Aged(@, dt)]

GateAgeAfter(g, a) ==
  IF g.br = "arm" THEN 0 ELSE IF g.active = 0 THEN 0 - 1 ELSE a

LastNZAfter(out, nz) == IF out # 0 THEN [sign |-> Sign(out), zero |-> 0] ELSE nz

FlipAfter(out, nz) ==
  out # 0 /\ nz.sign = 0 - Sign(out) /\ nz.zero < cfg.neutral_dwell_ms

\* ceil(|cur| / ramp_step_pct)
StopNeed(cur) ==
  IF cfg.ramp_step_pct = 0 THEN 0 - 1
  ELSE (Abs(cur) + cfg.ramp_step_pct - 1) \div cfg.ramp_step_pct

\* one more Update
Counted(n) == IF n < MaxUpdates THEN n + 1 ELSE 2 * MaxUpdates + 1 - n

StopCntAfter(c) ==
  IF c.need < 0 THEN c ELSE [c EXCEPT !.done = Min(c.need, @ + 1)]

(***************************************************************************)
(* The API.                                                                *)
(***************************************************************************)
\* a faulty Tank_Init that leaves the gates as they are
Tank_Init_keeps_gates ==
  /\ s' = TD_Zero
  /\ C' = 1
  /\ esc_calls' = Neutral
  /\ stopCnt' = [L |-> StopNone, R |-> StopNone]
  /\ UNCHANGED <<cfg, tick, nUpd, elapsed, lastNZ, flip, gateAge,
                 gate_L_active, gate_R_active, gate_L_until, gate_R_until>>

Tank_Init ==
  /\ s' = TD_Zero
  /\ C' = 1
  /\ gate_L_active' = 0 /\ gate_R_active' = 0
  /\ gate_L_until' = U32(0, 0) /\ gate_R_until' = U32(0, 0)
  /\ esc_calls' = Neutral
  /\ gateAge' = [L |-> 0 - 1, R |-> 0 - 1]
  /\ stopCnt' = [L |-> StopNone, R |-> StopNone]
  /\ UNCHANGED <<cfg, tick, nUpd, elapsed, lastNZ, flip>>

\* a faulty Tank_Update that writes a channel only when its value changes
Tank_Update_on_change ==
  \E u \in {Upd} :
      /\ C' = 1
      /\ gate_L_active' = u.gL.active /\ gate_L_until' = u.gL.until
      /\ gate_R_active' = u.gR.active /\ gate_R_until' = u.gR.until
      /\ s' = [s EXCEPT !.cur_L = u.cur_L, !.cur_R = u.cur_R,
                        !.flt_L = u.flt_L, !.flt_R = u.flt_R]
      /\ esc_calls' =
           (IF u.out_L = OutPct("L") THEN <<>>
            ELSE <<[ch |-> "CH4", pct |-> u.out_L]>>)
           \o (IF u.out_R = OutPct("R") THEN <<>>
               ELSE <<[ch |-> "CH1", pct |-> u.out_R]>>)
      /\ nUpd' = Counted(nUpd)
      /\ gateAge' = [L |-> GateAgeAfter(u.gL, gateAge.L),
                     R |-> GateAgeAfter(u.gR, gateAge.R)]
      /\ lastNZ' = [L |-> LastNZAfter(u.out_L, lastNZ.L),
                    R |-> LastNZAfter(u.out_R, lastNZ.R)]
      /\ flip' = [L |-> FlipAfter(u.out_L, lastNZ.L),
                  R |-> FlipAfter(u.out_R, lastNZ.R)]
      /\ stopCnt' = [L |-> StopCntAfter(stopCnt.L),
                     R |-> StopCntAfter(stopCnt.R)]
      /\ UNCHANGED <<cfg, tick, elapsed>>

Tank_Update ==
  \E u \in {Upd} :
      /\ C' = 1
      /\ gate_L_active' = u.gL.active /\ gate_L_until' = u.gL.until
      /\ gate_R_active' = u.gR.active /\ gate_R_until' = u.gR.until
      /\ s' = [s EXCEPT !.cur_L = u.cur_L, !.cur_R = u.cur_R,
                        !.flt_L = u.flt_L, !.flt_R = u.flt_R]
      /\ esc_calls' = <<[ch |-> "CH4", pct |-> u.out_L],
                        [ch |-> "CH1", pct |-> u.out_R]>>
      /\ nUpd' = Counted(nUpd)
      /\ gateAge' = [L |-> GateAgeAfter(u.gL, gateAge.L),
                     R |-> GateAgeAfter(u.gR, gateAge.R)]
      /\ lastNZ' = [L |-> LastNZAfter(u.out_L, lastNZ.L),
                    R |-> LastNZAfter(u.out_R, lastNZ.R)]
      /\ flip' = [L |-> FlipAfter(u.out_L, lastNZ.L),
                  R |-> FlipAfter(u.out_R, lastNZ.R)]
      /\ stopCnt' = [L |-> StopCntAfter(stopCnt.L),
                     R |-> StopCntAfter(stopCnt.R)]
      /\ UNCHANGED <<cfg, tick, elapsed>>

\* what every target-setting call does: s.tgt_L = l; s.tgt_R = r
SetTgt(l, r) ==
  /\ s' = [s EXCEPT !.tgt_L = l, !.tgt_R = r]
  /\ stopCnt' = IF l = 0 /\ r = 0
                  THEN [L |-> [need |-> StopNeed(s.cur_L), done |-> 0],
                        R |-> [need |-> StopNeed(s.cur_R), done |-> 0]]
                  ELSE [L |-> StopNone, R |-> StopNone]
  /\ UNCHANGED <<cfg, C, gate_L_active, gate_R_active, gate_L_until,
                 gate_R_until, tick, esc_calls, nUpd, elapsed, gateAge,
                 lastNZ, flip>>

Tank_Stop == SetTgt(0, 0)

Tank_Forward(pct) ==
  LET p == clamp_i8(pct, 0, 100) IN SetTgt(ToInt8(p), ToInt8(p))

Tank_Backward(pct) ==
  LET p == clamp_i8(pct, 0, 100) IN SetTgt(ToInt8(0 - p), ToInt8(0 - p))

\* a faulty arc: the inner track gets the whole base
arc_full(base) ==
  [inner |-> ToInt8(IF base < 0 THEN 0 ELSE base),
   outer |-> ToInt8(IF base < 0 THEN 0 ELSE base)]

\* [inner, outer]
arc_pair(base) ==
  LET in0 == CDiv(base, 2)
  IN  [inner |-> ToInt8(IF in0 < 0 THEN 0 ELSE in0),
       outer |-> ToInt8(IF base < 0 THEN 0 ELSE base)]

Tank_TurnLeft(pct) ==
  LET a == arc_pair(clamp_i8(pct, 0, 100)) IN SetTgt(a.inner, a.outer)

Tank_TurnRight(pct) ==
  LET a == arc_pair(clamp_i8(pct, 0, 100)) IN SetTgt(a.outer, a.inner)

Tank_RotateLeft(pct) ==
  LET p == clamp_i8(pct, 0, 100) IN SetTgt(ToInt8(0 - p), ToInt8(p))

Tank_RotateRight(pct) ==
  LET p == clamp_i8(pct, 0, 100) IN SetTgt(ToInt8(p), ToInt8(0 - p))

Tank_SetTarget(left_pct, right_pct) ==
  SetTgt(clamp_i8(left_pct, 0 - 100, 100), clamp_i8(right_pct, 0 - 100, 100))

(***************************************************************************)
(* HAL_GetTick advances by dt milliseconds.                                *)
(***************************************************************************)
SysTick(dt) ==
  /\ elapsed + dt <= MaxElapsed
  /\ tick' = U32Add(tick, dt)
  /\ elapsed' = elapsed + dt
  /\ gateAge' = [L |-> IF gateAge.L < 0 THEN gateAge.L ELSE Aged(gateAge.L, dt),
                 R |-> IF gateAge.R < 0 THEN gateAge.R ELSE Aged(gateAge.R, dt)]
  /\ lastNZ' = [L |-> ZeroAged("L", lastNZ.L, dt),
                R |-> ZeroAged("R", lastNZ.R, dt)]
  /\ UNCHANGED <<tank, esc_calls, nUpd, flip, stopCnt>>

Next ==
  \/ Tank_Init /\ UNCHANGED ext
  \/ nUpd < MaxUpdates /\ Tank_Update /\ UNCHANGED ext
  \/ Tank_Stop /\ UNCHANGED ext
  \/ \E p \in PctArgs : Tank_Forward(p) /\ UNCHANGED ext
  \/ \E p \in PctArgs : Tank_Backward(p) /\ UNCHANGED ext
  \/ \E p \in PctArgs : Tank_TurnLeft(p) /\ UNCHANGED ext
  \/ \E p \in PctArgs : Tank_TurnRight(p) /\ UNCHANGED ext
  \/ \E p \in PctArgs : Tank_RotateLeft(p) /\ UNCHANGED ext
  \/ \E p \in PctArgs : Tank_RotateRight(p) /\ UNCHANGED ext
  \/ \E a \in TargetArgs : Tank_SetTarget(a[1], a[2]) /\ UNCHANGED ext
  \/ \E dt \in Steps : SysTick(dt) /\ UNCHANGED ext

Spec == Init /\ [][Next]_vars

(***************************************************************************)
(* Views of one channel, ch in {"L", "R"}.                                 *)
(***************************************************************************)
Chan == {"L", "R"}

Cur(ch) == IF ch = "L" THEN s.cur_L ELSE s.cur_R
Tgt(ch) == IF ch = "L" THEN s.tgt_L ELSE s.tgt_R
Filt(ch) == IF ch = "L" THEN s.flt_L ELSE s.flt_R
GateActive(ch) == IF ch = "L" THEN gate_L_active ELSE gate_R_active
GateUntil(ch) == IF ch = "L" THEN gate_L_until ELSE gate_R_until

\* the gate is active and HAL_GetTick() has not reached gate_until
Holding(ch) ==
  GateActive(ch) # 0 /\ ~I32NonNeg(U32Sub(tick, GateUntil(ch)))

\* cur and tgt are on opposite sides of the dead band
Reversal(ch) ==
  \/ Cur(ch) > cfg.reverse_threshold_pct
       /\ Tgt(ch) < 0 - cfg.reverse_threshold_pct
  \/ Cur(ch) < 0 - cfg.reverse_threshold_pct
       /\ Tgt(ch) > cfg.reverse_threshold_pct

\* the last operation that drove the ESC was a Tank_Update
Written == esc_calls # <<>> /\ esc_calls # Neutral

\* the step is a call of Tank_Update (which always counts in nUpd)
UpdateStep == nUpd' # nUpd /\ Tank_Update

(***************************************************************************)
(* The neutral gate.                                                       *)
(***************************************************************************)
\* C1: on each channel, Tank_Update never writes a nonzero percentage of
\* the sign opposite to the last nonzero percentage written unless the
\* channel has been commanded 0 for at least neutral_dwell_ms in between.
C1_NoAbruptReversal == \A ch \in Chan : ~flip[ch]

\* C2: an Update that finds cur and tgt of a channel on opposite sides of
\* the dead band sets that cur to 0, and every Update executed less than
\* neutral_dwell_ms after the Update that armed the gate leaves cur at 0,
\* whatever targets were set in between.
C2_ReversalForcesNeutral ==
  [][UpdateStep =>
       \A ch \in Chan :
         /\ Reversal(ch) => Cur(ch)' = 0
         /\ (gateAge[ch] >= 0 /\ gateAge[ch] < cfg.neutral_dwell_ms)
              => Cur(ch)' = 0]_vars

\* an Update ran while the gate of the left channel was pending for 250 ms,
\* on a channel that had been ramped to 40 before the reversal
C2_Witness ==
  /\ gateAge.L > 0 /\ gateAge.L < cfg.neutral_dwell_ms
  /\ gate_L_active = 1 /\ s.cur_L = 0
  /\ Abs(s.tgt_L) = 100
  /\ cfg = CfgSteep /\ Written /\ s.flt_L = FFromInt(5)

\* C3: in an Update the gate of a channel is armed, with
\* gate_until = now + neutral_dwell_ms, if and only if it is not holding
\* and the cur of before the Update and tgt are on opposite sides of the
\* dead band; otherwise gate_until is left alone and the gate does not
\* become active.
C3_ArmedIffReversal ==
  [][UpdateStep =>
       \A ch \in Chan :
         IF ~Holding(ch) /\ Reversal(ch)
           THEN /\ GateActive(ch)' = 1
                /\ GateUntil(ch)' = U32Add(tick, cfg.neutral_dwell_ms)
           ELSE /\ GateUntil(ch)' = GateUntil(ch)
                /\ GateActive(ch)' = IF Holding(ch) THEN GateActive(ch)
                                     ELSE 0]_vars

\* an Update has just armed the left gate, 300 ms before HAL_GetTick()
\* wraps, so that gate_until is past the wrap; the right gate was never armed
C3_Witness ==
  /\ Written /\ gate_L_active = 1 /\ gateAge.L = 0
  /\ tick = LateTick /\ gate_L_until = U32(0, 200)
  /\ s.cur_L = 0 /\ s.tgt_L < 0 - cfg.reverse_threshold_pct
  /\ gate_R_active = 0 /\ gate_R_until = U32(0, 0)

\* C4: while a gate is holding, an Update's gate evaluation returns 0 and
\* leaves gate_active and gate_until as they are.
C4_HoldIdempotent ==
  [][UpdateStep =>
       \A ch \in Chan :
         Holding(ch) =>
           /\ apply_neutral_gate_one(cfg, tick, Cur(ch), Tgt(ch),
                                     GateActive(ch), GateUntil(ch)).ret = 0
           /\ GateUntil(ch)' = GateUntil(ch)
           /\ GateActive(ch)' = GateActive(ch)
           /\ Cur(ch)' = 0]_vars

\* an Update has been executed while the left gate was holding: with the
\* steep ramp flt_L is 20 after the first Update, 10 after the arming one
\* and 5 after the one executed during the dwell; the target is nonzero
C4_Witness ==
  /\ cfg = CfgSteep /\ Holding("L") /\ Written
  /\ s.flt_L = FFromInt(5) /\ s.tgt_L # 0
  /\ U32Sub(gate_L_until, tick) = U32(0, 250)

\* C5 as stated: no step, Tank_Init included, takes a gate from active to
\* inactive unless it is an Update executed neutral_dwell_ms or more after
\* the Update that armed the gate (HAL_GetTick() at or past gate_until).
C5_NoCancel ==
  [][\A ch \in Chan :
       (GateActive(ch) # 0 /\ GateActive(ch)' = 0)
         => UpdateStep /\ gateAge[ch] >= cfg.neutral_dwell_ms]_vars

\* C5, amended: a gate goes from active to inactive only in an Update
\* executed neutral_dwell_ms or more after the Update that armed it
\* (HAL_GetTick() at or past gate_until), or in Tank_Init, which clears
\* both gates whatever the clock says.
C5_NoCancelButInit ==
  [][\A ch \in Chan :
       (GateActive(ch) # 0 /\ GateActive(ch)' = 0)
         => \/ UpdateStep /\ gateAge[ch] >= cfg.neutral_dwell_ms
            \/ Tank_Init]_vars

\* an Update has cleared the left gate on expiry (Tank_Init would have
\* zeroed gate_until), across the wrap of the tick counter
C5_Witness ==
  /\ Written /\ gate_L_active = 0 /\ gate_L_until = U32(0, 200)
  /\ tick = U32(0, 200) /\ s.cur_L # 0

\* C6: whenever a gate is active, the percentage last written to its
\* channel is 0.
C6_GateHoldsNeutral ==
  \A ch \in Chan : GateActive(ch) # 0 => OutPct(ch) = 0

(***************************************************************************)
(* Ramp, smoothing and window.                                             *)
(***************************************************************************)
\* C7: in an Update that neither arms nor clears the gate of a channel, cur
\* changes by at most ramp_step_pct and does not move away from the value
\* it is ramped to (tgt, or 0 while the gate holds).
C7_RampBounded ==
  [][UpdateStep =>
       \A ch \in Chan :
         (GateActive(ch)' = GateActive(ch) /\ GateUntil(ch)' = GateUntil(ch))
           => /\ Abs(Cur(ch)' - Cur(ch)) <= cfg.ramp_step_pct
              /\ LET to == IF GateActive(ch) # 0 THEN 0 ELSE Tgt(ch)
                 IN  /\ Abs(to - Cur(ch)') <= Abs(to - Cur(ch))
                     /\ Abs(to - Cur(ch)') + Abs(Cur(ch)' - Cur(ch))
                          = Abs(to - Cur(ch))]_vars

\* two Updates have ramped the left channel, whose gate was never armed, to
\* twice ramp_step_pct on the way to a target further off
C7_Witness ==
  /\ Written /\ gate_L_active = 0 /\ gate_L_until = U32(0, 0)
  /\ Abs(s.cur_L) = 2 * cfg.ramp_step_pct
  /\ Abs(s.tgt_L) > Abs(s.cur_L) /\ Sign(s.tgt_L) = Sign(s.cur_L)

\* the Updates that Scenario D asks for have been executed
Stopped(ch) == stopCnt[ch].need >= 0 /\ stopCnt[ch].done = stopCnt[ch].need

SettleArgs == {<<0, 0>>, <<100, 0 - 100>>, <<0 - 100, 100>>}

UpdateDue == nUpd < MaxUpdates \/ (s.tgt_L = 0 /\ s.tgt_R = 0)

SettleUpdate == UpdateDue /\ Tank_Update

\* a due Update is counted: of the steps of NextSettle only SettleUpdate
\* changes nUpd, and it always does
UpdateCounted == UpdateDue /\ nUpd' = Counted(nUpd)

NextSettle ==
  \/ SettleUpdate /\ UNCHANGED ext
  \/ nUpd < MaxUpdates /\ UNCHANGED ext
       /\ \E a \in SettleArgs : Tank_SetTarget(a[1], a[2])
  \/ \E dt \in Steps : SysTick(dt) /\ UNCHANGED ext

\* The main loop never stops calling Tank_Update when it is due. By the
\* remark at UpdateCounted this is WF_vars(SettleUpdate).
SpecSettle == Init /\ [][NextSettle]_vars /\ WF_nUpd(UpdateCounted)

\* C9 as stated: if both targets stay 0 from some point on, then from some
\* point on cur, flt and the percentage written are exactly 0 on both
\* channels.
C9_SettlesToZero ==
  <>[](s.tgt_L = 0 /\ s.tgt_R = 0)
    => <>[](\A ch \in Chan :
              Cur(ch) = 0 /\ Filt(ch).mt = 0 /\ OutPct(ch) = 0)

\* C9, amended: if both targets stay 0 from some point on, then from some
\* point on cur and the percentage written are exactly 0 on both channels,
\* and flt is at most 2^-148 in magnitude: 0, or the subnormal at which the
\* rounded product (1 - smooth_alpha) * flt reproduces flt.
C9_SettlesNearZero ==
  <>[](s.tgt_L = 0 /\ s.tgt_R = 0)
    => <>[](\A ch \in Chan :
              /\ Cur(ch) = 0 /\ OutPct(ch) = 0
              /\ Filt(ch).ex = EMin /\ Filt(ch).mt <= 2)

\* with smooth_alpha 0.20f the left channel has come to rest with cur and
\* the percentage written at 0 and flt stuck at 2^-148
C9_Witness ==
  /\ Written /\ s.tgt_L = 0 /\ s.cur_L = 0 /\ OutPct("L") = 0
  /\ s.flt_L.ex = EMin /\ s.flt_L.mt = 2
  /\ update_flt(cfg, s.flt_L, 0) = s.flt_L

(***************************************************************************)
(* A held target: after a few Tank_SetTarget and Tank_Update calls the     *)
(* targets stay as they are, Tank_Update goes on being called and          *)
(* HAL_GetTick() goes on counting. Once MaxElapsed ms have passed the      *)
(* counter is followed only while a gate waits for it, and elapsed stays   *)
(* at MaxElapsed.                                                          *)
(***************************************************************************)
HoldTick(dt) ==
  /\ elapsed + dt <= MaxElapsed \/ \E ch \in Chan : Holding(ch)
  /\ tick' = U32Add(tick, dt)
  /\ elapsed' = Min(MaxElapsed, elapsed + dt)
  /\ gateAge' = [L |-> IF gateAge.L < 0 THEN gateAge.L ELSE Aged(gateAge.L, dt),
                 R |-> IF gateAge.R < 0 THEN gateAge.R ELSE Aged(gateAge.R, dt)]
  /\ lastNZ' = [L |-> ZeroAged("L", lastNZ.L, dt),
                R |-> ZeroAged("R", lastNZ.R, dt)]
  /\ UNCHANGED <<tank, esc_calls, nUpd, flip, stopCnt>>

NextHold ==
  \/ Tank_Update /\ UNCHANGED ext
  \/ nUpd < MaxUpdates /\ UNCHANGED ext
       /\ \E a \in SettleArgs : Tank_SetTarget(a[1], a[2])
  \/ \E dt \in Steps : HoldTick(dt) /\ UNCHANGED ext

\* The main loop never stops calling Tank_Update, which always changes
\* nUpd, and the SysTick interrupt never stops counting.
SpecHold ==
  /\ Init /\ [][NextHold]_vars
  /\ WF_nUpd(nUpd' = Counted(nUpd))
  /\ WF_tick(\E dt \in Steps : HoldTick(dt))

\* ceil(|tgt - cur| / ramp_step_pct): the Updates the ramp still needs
RampNeed(ch) ==
  (Abs(Tgt(ch) - Cur(ch)) + cfg.ramp_step_pct - 1) \div cfg.ramp_step_pct

\* C31: with ramp_step_pct >= 1, a channel whose target stays T while
\* Tank_Update keeps being called and the clock keeps counting ends with
\* cur = T for good; once the targets are held, a gate that was active and
\* is no longer active is never active again; and each Update that leaves
\* the gate inactive takes one off the ceil(|T - cur| / ramp_step_pct)
\* Updates still needed, down to 0.
C31_HeldTargetReached ==
  /\ \A ch \in Chan : \A T \in {0 - 100, 0, 100} :
       <>[](Tgt(ch) = T) => <>[](Cur(ch) = T)
  /\ \A ch \in Chan :
       []((nUpd >= MaxUpdates /\ GateActive(ch) # 0)
            => [](GateActive(ch) = 0 => [](GateActive(ch) = 0)))
  /\ [][\A ch \in Chan :
          (nUpd' # nUpd /\ GateActive(ch)' = 0)
            => RampNeed(ch)' = Max(0, RampNeed(ch) - 1)]_vars

\* the left target is held at -100 after the track ran forward: the gate
\* was armed, the dwell is over, the gate is inactive again and cur has
\* reached -100
C31_Witness ==
  /\ nUpd >= MaxUpdates /\ s.tgt_L = 0 - 100 /\ s.cur_L = 0 - 100
  /\ gate_L_active = 0 /\ gate_L_until # U32(0, 0)
  /\ lastNZ.L.sign = 0 - 1 /\ elapsed = MaxElapsed

\* the state that Init and SetTarget(100, 100) leave, with ramp_step_pct 4
\* and the window [30, 60]
ScenarioA ==
  /\ s = [TD_Zero EXCEPT !.tgt_L = 100, !.tgt_R = 100]
  /\ gate_L_active = 0 /\ gate_R_active = 0
  /\ gate_L_until = U32(0, 0) /\ gate_R_until = U32(0, 0)
  /\ cfg.ramp_step_pct = 4
  /\ cfg.esc_start_pct = 30 /\ cfg.esc_max_pct = 60

\* C10 as stated: the Update that follows Init and SetTarget(100, 100),
\* with ramp_step_pct 4 and the window [30, 60], leaves cur at 4 and writes
\* a percentage of magnitude 31 on both channels.
C10_ScenarioA ==
  [][(ScenarioA /\ UpdateStep) =>
       \A ch \in Chan : Cur(ch)' = 4 /\ Abs(OutPct(ch)') = 31]_vars

\* C10, amended: that Update leaves cur at 4 on both channels; it writes
\* magnitude 31 when smoothing is bypassed (smooth_alpha <= 0), and 0 with
\* the smooth_alpha 0.20f of config.c, flt being 0.8 after one Update.
C10_ScenarioASmoothed ==
  [][(ScenarioA /\ UpdateStep) =>
       \A ch \in Chan :
         /\ Cur(ch)' = 4
         /\ ~FLt(F_0, cfg.smooth_alpha) => OutPct(ch)' = 31
         /\ cfg.smooth_alpha = F_0_20
              => OutPct(ch)' = 0 /\ FLt(F_0, Filt(ch)')
                   /\ FLt(Filt(ch)', F_1)]_vars

\* the state after that Update under the configuration of config.c
C10_Witness ==
  /\ cfg = CfgDefault /\ Written /\ nUpd = 1
  /\ s.tgt_L = 100 /\ s.tgt_R = 100 /\ s.cur_L = 4 /\ s.cur_R = 4
  /\ OutPct("L") = 0 /\ OutPct("R") = 0
  /\ s.flt_L.mt # 0

C16_InitResets ==
  [][Tank_Init =>
       /\ \A ch \in Chan :
            /\ Tgt(ch)' = 0 /\ Cur(ch)' = 0 /\ Filt(ch)' = F_0
            /\ GateActive(ch)' = 0
       /\ Len(esc_calls') = 1
       /\ esc_calls'[1] = [ch |-> "ALL", pct |-> 0]]_vars

\* Tank_Init was called after two Updates that had driven the left channel
C16_Witness ==
  /\ esc_calls = Neutral /\ nUpd >= 2 /\ lastNZ.L.sign # 0
  /\ s = TD_Zero /\ gate_L_active = 0 /\ gate_R_active = 0

\* C17: every Tank_Update makes exactly two ESC_WritePercentRaw calls, the
\* left channel (CH4) then the right one (CH1), in every state: also when
\* the values are the ones of the previous Update and while gates are
\* active.
C17_TwoWritesPerUpdate ==
  [][UpdateStep =>
       /\ Len(esc_calls') = 2
       /\ esc_calls'[1].ch = "CH4" /\ esc_calls'[2].ch = "CH1"]_vars

\* the left gate was armed by the second Update and held through the
\* third, which wrote the decaying filtered value to CH4 and the right
\* channel to CH1
C17_Witness ==
  /\ cfg = CfgSteep /\ nUpd = 3 /\ Len(esc_calls) = 2
  /\ Holding("L") /\ s.flt_L = FFromInt(5) /\ s.cur_L = 0
  /\ esc_calls[1] = [ch |-> "CH4", pct |-> 31]
  /\ esc_calls[2].ch = "CH1" /\ s.cur_R = 100

(***************************************************************************)
(* More on the neutral gate.                                               *)
(***************************************************************************)
\* C24: also when gate_until = now + neutral_dwell_ms has wrapped past 2^32,
\* an Update that finds a gate armed less than neutral_dwell_ms ago leaves
\* it held (active, gate_until as it was, cur 0), and the first Update
\* neutral_dwell_ms or more after the arming clears it.
C24_DwellAcrossWrap ==
  [][UpdateStep =>
       \A ch \in Chan :
         GateActive(ch) # 0 =>
           IF gateAge[ch] < cfg.neutral_dwell_ms
             THEN /\ GateActive(ch)' # 0
                  /\ GateUntil(ch)' = GateUntil(ch)
                  /\ Cur(ch)' = 0
             ELSE GateActive(ch)' = 0]_vars

\* the left gate was armed 50 ms before the counter wraps, so gate_until
\* is 450, and an Update at 200, after the wrap, has held it
C24_Witness ==
  /\ cfg = CfgSteep /\ nUpd = 3 /\ Written
  /\ gate_L_active = 1 /\ gate_L_until = U32(0, 450) /\ tick = U32(0, 200)
  /\ gateAge.L = 250 /\ s.flt_L = FFromInt(5) /\ s.cur_L = 0

\* C26 as stated: with cur at +80 and the target just set to -80 or
\* below, the next Update does not arm the gate.
C26_JumpNotGated ==
  [][UpdateStep =>
       \A ch \in Chan :
         (Cur(ch) = 80 /\ Tgt(ch) <= 0 - 80 /\ GateActive(ch) = 0)
           => GateActive(ch)' = 0]_vars

\* C26, amended: with cur at +80 and the target just set to -80 or below,
\* the very next Update arms the gate: it leaves the gate active with
\* gate_until = now + neutral_dwell_ms and cur at 0.
C26_JumpGatedAtOnce ==
  [][UpdateStep =>
       \A ch \in Chan :
         (Cur(ch) = 80 /\ Tgt(ch) <= 0 - 80 /\ GateActive(ch) = 0)
           => /\ GateActive(ch)' = 1
              /\ GateUntil(ch)' = U32Add(tick, cfg.neutral_dwell_ms)
              /\ Cur(ch)' = 0]_vars

\* the right channel ran at +80 when Tank_RotateRight or Tank_Backward set
\* its target to -100, and the Update that followed has armed its gate
C26_Witness ==
  /\ cfg = CfgSteep /\ nUpd = 3 /\ Written
  /\ s.tgt_R = 0 - 100 /\ s.cur_R = 0 /\ s.flt_R = FFromInt(25)
  /\ gate_R_active = 1 /\ gateAge.R = 0
  /\ gate_R_until = U32Add(tick, cfg.neutral_dwell_ms)

\* C27 as stated: a Tank_Update called while C is NULL (before Tank_Init)
\* does not run the pipeline: it changes neither s nor the gates and makes
\* no ESC call.
C27_UpdateNeedsInit ==
  [][(UpdateStep /\ C = 0) =>
       /\ s' = s /\ esc_calls' = esc_calls
       /\ gate_L_active' = gate_L_active
       /\ gate_R_active' = gate_R_active]_vars

\* C29: after every Update, a channel whose gate is active has cur = 0,
\* whatever its target.
C29_ActiveGateZeroCur ==
  [][UpdateStep =>
       \A ch \in Chan : GateActive(ch)' # 0 => Cur(ch)' = 0]_vars

\* the left gate is active after three Updates with the target at -100
C29_Witness ==
  /\ cfg = CfgBypass /\ nUpd = 3 /\ Written
  /\ gate_L_active = 1 /\ s.cur_L = 0 /\ s.tgt_L = 0 - 100
  /\ s.flt_L = F_0

\* C30: the Update that finds the dwell of a gate expired leaves that gate
\* inactive and cur at most ramp_step_pct away from 0, on the side of the
\* target; and no Update re-arms a gate that is active: a gate that is
\* active before and after an Update has kept its gate_until.
C30_NoRearmAtExpiry ==
  [][UpdateStep =>
       \A ch \in Chan :
         GateActive(ch) # 0 =>
           IF Holding(ch)
             THEN GateActive(ch)' # 0 /\ GateUntil(ch)' = GateUntil(ch)
             ELSE /\ GateActive(ch)' = 0
                  /\ Cur(ch)' = IF Abs(Tgt(ch)) <= cfg.ramp_step_pct
                                  THEN Tgt(ch)
                                  ELSE Sign(Tgt(ch)) * cfg.ramp_step_pct]_vars

\* the third Update found the left dwell expired, 500 ms after the second
\* had armed the gate: the gate is inactive and cur has left 0 for -40
C30_Witness ==
  /\ cfg = CfgSteep /\ nUpd = 3 /\ Written /\ elapsed = 500
  /\ gate_L_active = 0 /\ gate_L_until = tick /\ gateAge.L = 0 - 1
  /\ s.cur_L = 0 - 40 /\ s.tgt_L = 0 - 100

\* C25: the channels are independent: an Update leaves the left channel
\* (cur, flt, gate, percentage written) as it would with any other state
\* of the right channel (other target, ramped and filtered value, gate
\* idle, about to arm or holding), and the right channel likewise; by
\* induction two runs that differ in the right targets only agree on the
\* left channel after every Update.
C25_ChannelsIndependent ==
  [][UpdateStep =>
       \A a \in {[tgt |-> 100, cur |-> 100, flt |-> F_100, active |-> 0,
                  until |-> U32(0, 0)],
                 [tgt |-> 0 - 100, cur |-> 80, flt |-> F_0, active |-> 0,
                  until |-> tick],
                 [tgt |-> 7, cur |-> 0, flt |-> F_1, active |-> 1,
                  until |-> U32Add(tick, 1)]} :
         /\ \A u \in {UpdOf([s EXCEPT !.tgt_R = a.tgt, !.cur_R = a.cur,
                                      !.flt_R = a.flt],
                            gate_L_active, gate_L_until,
                            a.active, a.until)} :
              /\ u.cur_L = s'.cur_L /\ u.flt_L = s'.flt_L
              /\ u.gL.active = gate_L_active'
              /\ u.gL.until = gate_L_until'
              /\ u.out_L = esc_calls'[1].pct
         /\ \A u \in {UpdOf([s EXCEPT !.tgt_L = a.tgt, !.cur_L = a.cur,
                                      !.flt_L = a.flt],
                            a.active, a.until,
                            gate_R_active, gate_R_until)} :
              /\ u.cur_R = s'.cur_R /\ u.flt_R = s'.flt_R
              /\ u.gR.active = gate_R_active'
              /\ u.gR.until = gate_R_until'
              /\ u.out_R = esc_calls'[2].pct]_vars

\* Tank_RotateRight after two Updates forward: the third Update has armed
\* the right gate while the left channel went on to +100
C25_Witness ==
  /\ cfg = CfgSteep /\ nUpd = 3 /\ Written
  /\ gate_R_active = 1 /\ gate_L_active = 0
  /\ s.cur_L = 100 /\ s.cur_R = 0 /\ s.tgt_L = 100 /\ s.tgt_R = 0 - 100
  /\ esc_calls[1].pct > 0 /\ esc_calls[2].pct > 0

(***************************************************************************)
(* The ESC window alone: map_logic_to_esc_window is called once, with an   *)
(* x in -100 .. 100 and its opposite, under a window                       *)
(* 0 <= esc_start_pct <= esc_max_pct <= 100.                               *)
(***************************************************************************)
Pcts == (0 - 100) .. 100

WindowEdges == {0, 1, 30, 60, 99, 100}

Windows == {w \in WindowEdges \X WindowEdges : w[1] <= w[2]}

WindowConfigs ==
  {[CfgDefault EXCEPT !.esc_start_pct = w[1], !.esc_max_pct = w[2]] :
     w \in Windows}

InitMap ==
  /\ cfg \in WindowConfigs
  /\ C = 1 /\ s = TD_Zero
  /\ gate_L_active = 0 /\ gate_R_active = 0
  /\ gate_L_until = U32(0, 0) /\ gate_R_until = U32(0, 0)
  /\ tick = U32(0, 0) /\ esc_calls = Neutral /\ nUpd = 0 /\ elapsed = 0
  /\ gateAge = [L |-> 0 - 1, R |-> 0 - 1]
  /\ lastNZ = [L |-> [sign |-> 0, zero |-> 0], R |-> [sign |-> 0, zero |-> 0]]
  /\ flip = [L |-> FALSE, R |-> FALSE]
  /\ stopCnt = [L |-> StopNone, R |-> StopNone]
  /\ mx \in Pcts /\ mres = <<>> /\ call = <<>>
  /\ AppReset

MapCall ==
  /\ mres = <<>>
  /\ mres' = [x  |-> map_logic_to_esc_window(cfg, mx),
              nx |-> map_logic_to_esc_window(cfg, 0 - mx)]
  /\ UNCHANGED <<tank, env, hist, mx, call, app, dtest, period, polled,
                 sched, uart>>

NextMap == MapCall

SpecMap == InitMap /\ [][NextMap]_vars

\* C12: under a window 0 <= esc_start_pct <= esc_max_pct <= 100 the window
\* maps 0 to 0 and every other x of -100 .. 100 to a value whose magnitude
\* lies in esc_start_pct .. esc_max_pct.
C12_WindowRange ==
  mres # <<>> =>
    IF mx = 0 THEN mres.x = 0
    ELSE /\ cfg.esc_start_pct <= Abs(mres.x)
         /\ Abs(mres.x) <= cfg.esc_max_pct

\* the window [30, 60] has mapped 1 to its bottom
C12_Witness ==
  /\ mres # <<>> /\ mx = 1
  /\ cfg.esc_start_pct = 30 /\ cfg.esc_max_pct = 60 /\ mres.x = 30

\* C13: the window is odd: what it returns for -x is the opposite of what
\* it returns for x.
C13_WindowOdd == mres # <<>> => mres.nx = 0 - mres.x

\* the window [30, 60] has mapped 33 to 39 and -33 to -39
C13_Witness ==
  /\ mres # <<>> /\ mx = 33
  /\ cfg.esc_start_pct = 30 /\ cfg.esc_max_pct = 60
  /\ mres.x = 39 /\ mres.nx = 0 - 39

\* C14: the window is monotonic: what it returns for x is at most what it
\* returns for any y of x .. 100.
C14_WindowMonotonic ==
  mres # <<>> =>
    \A y \in mx .. 100 : mres.x <= map_logic_to_esc_window(cfg, y)

\* the window [1, 99] has mapped -100 to -99, below everything else
C14_Witness ==
  /\ mres # <<>> /\ mx = 0 - 100
  /\ cfg.esc_start_pct = 1 /\ cfg.esc_max_pct = 99 /\ mres.x = 0 - 99

\* C37: for x # 0 the window returns sign(x) times esc_start_pct +
\* (esc_max_pct - esc_start_pct) * |x| / 100, the division truncating and
\* the sum clamped to the window (4 gives 31 in [30, 60]); for 0 it
\* returns 0.
C37_WindowFormula ==
  mres # <<>> =>
    mres.x = IF mx = 0 THEN 0
             ELSE Sign(mx)
                    * Max(cfg.esc_start_pct,
                          Min(cfg.esc_max_pct,
                              cfg.esc_start_pct
                                + ((cfg.esc_max_pct - cfg.esc_start_pct)
                                     * Abs(mx)) \div 100))

\* the window [30, 60] has mapped 4 to 31 and -4 to -31
C37_Witness ==
  /\ mres # <<>> /\ mx = 4
  /\ cfg.esc_start_pct = 30 /\ cfg.esc_max_pct = 60
  /\ mres.x = 31 /\ mres.nx = 0 - 31

\* C33: whatever int8 arguments the target calls are given and however
\* Updates are interleaved with them, both targets and both currents lie in
\* -100 .. 100 in every reachable state.
C33_TargetsAndCurrentsInRange ==
  \A ch \in Chan : Tgt(ch) \in Pcts /\ Cur(ch) \in Pcts

\* Tank_SetTarget(-128, 127) was called from rest and an Update has run:
\* the targets are -100 and 100 and the currents have ramped by 40
C33_Witness ==
  /\ call = <<"SetTarget", 0 - 128, 127>>
  /\ s.tgt_L = 0 - 100 /\ s.tgt_R = 100
  /\ s.cur_L = 0 - 40 /\ s.cur_R = 40 /\ nUpd = 1

(***************************************************************************)
(* The ramp alone: ramp_once is called once, with cur and tgt in           *)
(* -100 .. 100 and a step of the uint8_t range.                            *)
(***************************************************************************)
RampSteps == {0, 1, 4, 100, 199, 200, 201, 255}

InitRamp == InitMap /\ cfg = CfgDefault

RampCall ==
  /\ mres = <<>>
  /\ \E t \in Pcts, st \in RampSteps :
       mres' = [cur |-> mx, tgt |-> t, step |-> st,
                new |-> ramp_once(mx, t, st)]
  /\ UNCHANGED <<tank, env, hist, mx, call, app, dtest, period, polled,
                 sched, uart>>

SpecRamp == InitRamp /\ [][RampCall]_vars

\* C32: ramp_once does not overshoot: for cur and tgt in -100 .. 100 and a
\* step in 0 .. 255 the new cur is tgt if |tgt - cur| <= step, and cur
\* moved by step toward tgt otherwise, so that |tgt - new| is
\* max(0, |tgt - cur| - step).
C32_RampNoOvershoot ==
  mres # <<>> =>
    /\ IF Abs(mres.tgt - mres.cur) <= mres.step
         THEN mres.new = mres.tgt
         ELSE mres.new = mres.cur + Sign(mres.tgt - mres.cur) * mres.step
    /\ Abs(mres.tgt - mres.new)
         = Max(0, Abs(mres.tgt - mres.cur) - mres.step)

\* from -100 toward 100 with step 199 the ramp has stopped at 99
C32_Witness ==
  /\ mres # <<>> /\ mres.cur = 0 - 100 /\ mres.tgt = 100
  /\ mres.step = 199 /\ mres.new = 99

(***************************************************************************)
(* One call of the target API: the drive is first brought into some state  *)
(* by a few Tank_SetTarget and Tank_Update steps, then one maneuver or     *)
(* one Tank_SetTarget is called with any int8_t argument, and `call'       *)
(* records which one and with what; Tank_Update calls follow.              *)
(***************************************************************************)
Int8 == (0 - 128) .. 127

PreUpdates == 2

PreArgs == {<<100, 100>>, <<0 - 100, 100>>}

Int8Edges == {0 - 128, 0, 127}

SetTargetArgs == (Int8 \X Int8Edges) \cup (Int8Edges \X Int8)

InitManeuver == Init /\ cfg = CfgSteep

Called(c) ==
  call' = c /\ UNCHANGED <<mx, mres, app, dtest, period, polled, sched, uart>>

CallStop == call = <<>> /\ Tank_Stop /\ Called(<<"Stop", 0>>)

CallForward(pct) == call = <<>> /\ Tank_Forward(pct) /\ Called(<<"Forward", pct>>)

CallBackward(pct) == call = <<>> /\ Tank_Backward(pct) /\ Called(<<"Backward", pct>>)

CallTurnLeft(pct) == call = <<>> /\ Tank_TurnLeft(pct) /\ Called(<<"TurnLeft", pct>>)

CallTurnRight(pct) == call = <<>> /\ Tank_TurnRight(pct) /\ Called(<<"TurnRight", pct>>)

CallRotateLeft(pct) == call = <<>> /\ Tank_RotateLeft(pct) /\ Called(<<"RotateLeft", pct>>)

CallRotateRight(pct) ==
  call = <<>> /\ Tank_RotateRight(pct) /\ Called(<<"RotateRight", pct>>)

CallSetTarget(left_pct, right_pct) ==
  /\ call = <<>>
  /\ Tank_SetTarget(left_pct, right_pct)
  /\ Called(<<"SetTarget", left_pct, right_pct>>)

PreUpdate == call = <<>> /\ nUpd < PreUpdates /\ Tank_Update /\ UNCHANGED ext

PreSetTarget ==
  /\ call = <<>> /\ UNCHANGED ext
  /\ \E a \in PreArgs : Tank_SetTarget(a[1], a[2])

\* the Updates that follow the call
PostUpdate == call # <<>> /\ nUpd <= PreUpdates /\ Tank_Update /\ UNCHANGED ext

NextManeuver ==
  \/ PreUpdate
  \/ PreSetTarget
  \/ PostUpdate
  \/ CallStop
  \/ \E p \in Int8 : CallForward(p)
  \/ \E p \in Int8 : CallBackward(p)
  \/ \E p \in Int8 : CallTurnLeft(p)
  \/ \E p \in Int8 : CallTurnRight(p)
  \/ \E p \in Int8 : CallRotateLeft(p)
  \/ \E p \in Int8 : CallRotateRight(p)
  \/ \E a \in SetTargetArgs : CallSetTarget(a[1], a[2])

SpecManeuver == InitManeuver /\ [][NextManeuver]_vars

\* C15: Tank_SetTarget(l, r) stores l and r clamped to -100 .. 100 as the
\* targets and changes nothing else: the ramped and the filtered values,
\* both gates and their release times stay, and nothing is written to the
\* ESCs.
C15_SetTargetFrame ==
  [][(call = <<>> /\ call' # <<>> /\ call'[1] = "SetTarget") =>
       /\ s'.tgt_L = Max(0 - 100, Min(100, call'[2]))
       /\ s'.tgt_R = Max(0 - 100, Min(100, call'[3]))
       /\ s'.cur_L = s.cur_L /\ s'.cur_R = s.cur_R
       /\ s'.flt_L = s.flt_L /\ s'.flt_R = s.flt_R
       /\ gate_L_active' = gate_L_active /\ gate_R_active' = gate_R_active
       /\ gate_L_until' = gate_L_until /\ gate_R_until' = gate_R_until
       /\ esc_calls' = esc_calls
       /\ UNCHANGED <<cfg, C, tick>>]_vars

\* Tank_SetTarget(127, -128) was called while the left gate held and the
\* right track ran: the targets are 100 and -100
C15_Witness ==
  /\ call = <<"SetTarget", 127, 0 - 128>>
  /\ s.tgt_L = 100 /\ s.tgt_R = 0 - 100
  /\ gate_L_active = 1 /\ gate_R_active = 0
  /\ s.cur_R = 80 /\ s.flt_L # F_0 /\ Written

\* C18: every maneuver is one Tank_SetTarget: with m = pct clamped to
\* 0 .. 100, Stop is (0, 0), Forward (m, m), Backward (-m, -m), TurnLeft
\* (m/2, m), TurnRight (m, m/2), RotateLeft (-m, m), RotateRight (m, -m),
\* for every pct of -128 .. 127.
C18_ManeuverIsSetTarget ==
  [][(call = <<>> /\ call' # <<>> /\ call'[1] # "SetTarget") =>
       LET m == Max(0, Min(100, call'[2]))
           h == m \div 2
       IN  CASE call'[1] = "Stop"        -> Tank_SetTarget(0, 0)
             [] call'[1] = "Forward"     -> Tank_SetTarget(m, m)
             [] call'[1] = "Backward"    -> Tank_SetTarget(0 - m, 0 - m)
             [] call'[1] = "TurnLeft"    -> Tank_SetTarget(h, m)
             [] call'[1] = "TurnRight"   -> Tank_SetTarget(m, h)
             [] call'[1] = "RotateLeft"  -> Tank_SetTarget(0 - m, m)
             [] call'[1] = "RotateRight" -> Tank_SetTarget(m, 0 - m)]_vars

\* Tank_TurnLeft(127) was called while the left gate held: the targets are
\* 50 and 100
C18_Witness ==
  /\ call = <<"TurnLeft", 127>>
  /\ s.tgt_L = 50 /\ s.tgt_R = 100
  /\ gate_L_active = 1 /\ s.cur_R = 80

(***************************************************************************)
(* The soft timer of app.c (Nowy folder): one timer, primed as App_Init    *)
(* primes it, polled with App_TaskDue at any moment.                       *)
(***************************************************************************)
Periods == {0, 1, 20, 100, 200}

PollSteps == {7, 53}

\* a faulty poll that restarts the timer at now, as a plain soft timer does
App_TaskDue_now(now, last, p) ==
  IF p = 0 THEN [due |-> TRUE, last |-> now]
  ELSE IF U32Ge(U32Sub(now, last), p) THEN [due |-> TRUE, last |-> now]
  ELSE [due |-> FALSE, last |-> last]

\* a faulty poll that is never due with period 0
App_TaskDue_never(now, last, p) ==
  IF p = 0 THEN [due |-> FALSE, last |-> last]
  ELSE LET el == U32Sub(now, last)
       IN  IF U32Ge(el, p)
             THEN [due |-> TRUE,
                   last |-> U32Plus(last, U32Times(p, U32Div(el, p)))]
             ELSE [due |-> FALSE, last |-> last]

\* a faulty poll that compares now with last + period as plain numbers
App_TaskDue_naive(now, last, p) ==
  LET nxt == U32Add(last, p)
  IN  IF p = 0 THEN [due |-> TRUE, last |-> now]
      ELSE IF now[1] > nxt[1] \/ (now[1] = nxt[1] /\ now[2] >= nxt[2])
        THEN [due |-> TRUE,
              last |-> U32Plus(last,
                               U32Times(p, U32Div(U32Sub(now, last), p)))]
      ELSE [due |-> FALSE, last |-> last]

\* [due |-> what it returns, last |-> what it leaves in *last]
App_TaskDue(now, last, p) ==
  IF p = 0 THEN [due |-> TRUE, last |-> now]
  ELSE LET el == U32Sub(now, last)
       IN  IF U32Ge(el, p)
             THEN [due |-> TRUE,
                   last |-> U32Plus(last, U32Times(p, U32Div(el, p)))]
             ELSE [due |-> FALSE, last |-> last]

\* a faulty prime that starts the timer at now
App_TaskPrime_now(now, p) == now

App_TaskPrime(now, p) == IF p = 0 THEN now ELSE U32Sub(now, U32(0, p))

InitPoll ==
  /\ cfg = CfgDefault
  /\ s = TD_Zero
  /\ gate_L_active = 0 /\ gate_R_active = 0
  /\ gate_L_until = U32(0, 0) /\ gate_R_until = U32(0, 0)
  /\ tick \in {U32(0, 0), LateTick} /\ C = 1 /\ esc_calls = Neutral
  /\ nUpd = 0 /\ elapsed = 0
  /\ gateAge = [L |-> 0 - 1, R |-> 0 - 1]
  /\ lastNZ = [L |-> [sign |-> 0, zero |-> 0], R |-> [sign |-> 0, zero |-> 0]]
  /\ flip = [L |-> FALSE, R |-> FALSE]
  /\ stopCnt = [L |-> StopNone, R |-> StopNone]
  /\ mx = 0 /\ mres = <<>> /\ call = <<>>
  /\ period \in Periods
  /\ tTank = App_TaskPrime(tick, period)
  /\ tSens = U32(0, 0) /\ tOLED = U32(0, 0) /\ tUART = U32(0, 0)
  /\ s_idx = 0 /\ s_t0 = U32(0, 0) /\ s_running = FALSE
  /\ polled = <<>>
  /\ SchedReset

Poll ==
  \E r \in {App_TaskDue(tick, tTank, period)} :
    /\ tTank' = r.last
    /\ polled' = [now |-> tick, due |-> r.due]
    /\ UNCHANGED <<tank, env, hist, mx, mres, call, tSens, tOLED, tUART,
                   dtest, period, sched, uart>>

PollTick == \E dt \in PollSteps : SysTick(dt) /\ UNCHANGED ext

NextPoll == Poll \/ PollTick

SpecPoll == InitPoll /\ [][NextPoll]_vars

\* C19: a poll of App_TaskDue with period > 0 and k * period <= now - last
\* < (k + 1) * period, k >= 1, returns due and advances last by k * period
\* exactly; the poll repeated at the same now returns not due; a poll with
\* now - last < period returns not due and leaves last alone.
C19_PhaseRecovery ==
  [][(polled' # polled /\ period > 0) =>
       LET e == U32Sub(tick, tTank)
           k == e[2] \div period
       IN  /\ e[1] = 0
           /\ IF k >= 1
                THEN /\ polled'.due
                     /\ U32Sub(tTank', tTank) = U32(0, k * period)
                ELSE ~polled'.due /\ tTank' = tTank
           /\ (polled # <<>> /\ polled.due /\ polled.now = tick)
                => ~polled'.due]_vars

\* a timer of period 20, primed at HAL_GetTick() = 0 (so at 2^32 - 20), is
\* polled at 53 after at most one poll at 0: the poll finds two or three
\* whole periods elapsed, is due, and leaves the timer at 40
C19_Witness ==
  /\ period = 20 /\ tick = U32(0, 53)
  /\ polled = [now |-> tick, due |-> TRUE]
  /\ tTank = U32(0, 40)

\* C21: the first poll of App_TaskDue after App_TaskPrime returns due, at
\* the priming instant or any time later, for every period: 0 too, and a
\* period larger than HAL_GetTick(), where now - period wraps.
C21_FirstPollDue ==
  [][(polled = <<>> /\ polled' # <<>>) => polled'.due]_vars

\* a timer of period 200 primed at HAL_GetTick() = 0, so at 2^32 - 200,
\* was polled at 0: the poll was due and left the timer at 0
C21_Witness ==
  /\ period = 200 /\ tick = U32(0, 0)
  /\ polled = [now |-> tick, due |-> TRUE] /\ tTank = U32(0, 0)

\* C28: with period 0 every poll of App_TaskDue returns due and leaves
\* last at now.
C28_ZeroPeriodAlwaysDue ==
  [][(polled' # polled /\ period = 0) =>
       polled'.due /\ tTank' = tick]_vars

\* a timer of period 0 was polled 60 ms after the wrap of HAL_GetTick,
\* 360 ms after it was primed
C28_Witness ==
  /\ period = 0 /\ elapsed = 360 /\ tick = U32(0, 60)
  /\ polled = [now |-> tick, due |-> TRUE] /\ tTank = tick

\* C36: the counter rolling over does not change what App_TaskDue decides:
\* for period > 0, with now and last both shifted by the same constant
\* modulo 2^32, the poll returns the same due and leaves last shifted by
\* that constant.
C36_RolloverInvariant ==
  [][(polled' # polled /\ period > 0) =>
       \A k \in {U32(0, 1), U32(1, 0), U32(W16 \div 2, 0),
                 U32(12345, 54321), U32(W16 - 1, W16 - 1)} :
         \A r \in {App_TaskDue(U32Plus(tick, k), U32Plus(tTank, k),
                               period)} :
           r.due = polled'.due /\ r.last = U32Plus(tTank', k)]_vars

\* a timer of period 20 that stood at most at 2^32 - 40 was polled at 18,
\* 53 ms after the poll before and after the counter rolled over: it was
\* due and stands at 0, its phase
C36_Witness ==
  /\ period = 20 /\ elapsed = 318
  /\ polled = [now |-> U32(0, 18), due |-> TRUE] /\ tTank = U32(0, 0)

(***************************************************************************)
(* The main loop of Core/Src/app.c: App_Init has run (ESC armed for 3 s,   *)
(* Tank_Init, DriveTest_Start, the four timers set to HAL_GetTick()), and  *)
(* App_Tick is called at any moment.                                       *)
(***************************************************************************)
PERIOD_SENS_MS == 100
PERIOD_OLED_MS == 200
PERIOD_UART_MS == 200

DT_SCRIPT ==
  <<[l_pct |-> 50, r_pct |-> 50, dur_ms |-> 3000],
    [l_pct |-> 0, r_pct |-> 0, dur_ms |-> 600],
    [l_pct |-> 0 - 50, r_pct |-> 0 - 50, dur_ms |-> 3000],
    [l_pct |-> 0, r_pct |-> 0, dur_ms |-> 300]>>

DT_LEN == Len(DT_SCRIPT)

\* HAL_GetTick() at the end of App_Init
AppInitTicks == {U32(0, 3000), LateTick}

AppSteps == {13, 27}

\* the loop is followed for this many ms after App_Init
AppHorizon == 250

\* a faulty sequencer that leaves out the pauses at neutral
DriveTest_Tick_skip(now) ==
  IF s_running /\ U32Ge(U32Sub(now, s_t0), DT_SCRIPT[s_idx + 1].dur_ms)
    THEN IF s_idx + 2 < DT_LEN
           THEN [idx |-> s_idx + 2, t0 |-> now, running |-> TRUE, set |-> TRUE,
                 l |-> DT_SCRIPT[s_idx + 3].l_pct,
                 r |-> DT_SCRIPT[s_idx + 3].r_pct]
           ELSE [idx |-> DT_LEN, t0 |-> now, running |-> FALSE,
                 set |-> TRUE, l |-> 0, r |-> 0]
    ELSE [idx |-> s_idx, t0 |-> s_t0, running |-> s_running, set |-> FALSE,
          l |-> s.tgt_L, r |-> s.tgt_R]

\* what DriveTest_Tick leaves in s_idx, s_t0, s_running, and the targets
\* it sets, if any
DriveTest_Tick(now) ==
  IF s_running /\ U32Ge(U32Sub(now, s_t0), DT_SCRIPT[s_idx + 1].dur_ms)
    THEN IF s_idx + 1 < DT_LEN
           THEN [idx |-> s_idx + 1, t0 |-> now, running |-> TRUE, set |-> TRUE,
                 l |-> clamp_i8(DT_SCRIPT[s_idx + 2].l_pct, 0 - 100, 100),
                 r |-> clamp_i8(DT_SCRIPT[s_idx + 2].r_pct, 0 - 100, 100)]
           ELSE [idx |-> s_idx + 1, t0 |-> now, running |-> FALSE,
                 set |-> TRUE, l |-> 0, r |-> 0]
    ELSE [idx |-> s_idx, t0 |-> s_t0, running |-> s_running, set |-> FALSE,
          l |-> s.tgt_L, r |-> s.tgt_R]

InitApp ==
  /\ cfg = CfgDefault
  /\ C = 1
  /\ s = [TD_Zero EXCEPT !.tgt_L = DT_SCRIPT[1].l_pct,
                         !.tgt_R = DT_SCRIPT[1].r_pct]
  /\ gate_L_active = 0 /\ gate_R_active = 0
  /\ gate_L_until = U32(0, 0) /\ gate_R_until = U32(0, 0)
  /\ tick \in AppInitTicks /\ esc_calls = Neutral
  /\ nUpd = 0 /\ elapsed = 0
  /\ gateAge = [L |-> 0 - 1, R |-> 0 - 1]
  /\ lastNZ = [L |-> [sign |-> 0, zero |-> 0], R |-> [sign |-> 0, zero |-> 0]]
  /\ flip = [L |-> FALSE, R |-> FALSE]
  /\ stopCnt = [L |-> StopNone, R |-> StopNone]
  /\ mx = 0 /\ mres = <<>> /\ call = <<>>
  /\ tTank = tick /\ tSens = tick /\ tOLED = tick /\ tUART = tick
  /\ s_idx = 0 /\ s_t0 = tick /\ s_running = TRUE
  /\ period = 0 /\ polled = <<>>
  /\ SchedReset

\* the motion task of App_Tick: Tank_Update(); DriveTest_Tick(); tTank = now
MotionTask ==
  \E u \in {Upd}, d \in {DriveTest_Tick(tick)} :
      /\ C' = 1
      /\ gate_L_active' = u.gL.active /\ gate_L_until' = u.gL.until
      /\ gate_R_active' = u.gR.active /\ gate_R_until' = u.gR.until
      /\ s' = [tgt_L |-> d.l, tgt_R |-> d.r,
               cur_L |-> u.cur_L, cur_R |-> u.cur_R,
               flt_L |-> u.flt_L, flt_R |-> u.flt_R]
      /\ esc_calls' = <<[ch |-> "CH4", pct |-> u.out_L],
                        [ch |-> "CH1", pct |-> u.out_R]>>
      /\ nUpd' = Counted(nUpd)
      /\ gateAge' = [L |-> GateAgeAfter(u.gL, gateAge.L),
                     R |-> GateAgeAfter(u.gR, gateAge.R)]
      /\ lastNZ' = [L |-> LastNZAfter(u.out_L, lastNZ.L),
                    R |-> LastNZAfter(u.out_R, lastNZ.R)]
      /\ flip' = [L |-> FlipAfter(u.out_L, lastNZ.L),
                  R |-> FlipAfter(u.out_R, lastNZ.R)]
      /\ stopCnt' =
           IF ~d.set THEN [L |-> StopCntAfter(stopCnt.L),
                           R |-> StopCntAfter(stopCnt.R)]
           ELSE IF d.l = 0 /\ d.r = 0
             THEN [L |-> [need |-> StopNeed(u.cur_L), done |-> 0],
                   R |-> [need |-> StopNeed(u.cur_R), done |-> 0]]
           ELSE [L |-> StopNone, R |-> StopNone]
      /\ s_idx' = d.idx /\ s_t0' = d.t0 /\ s_running' = d.running
      /\ tTank' = tick
      /\ UNCHANGED <<cfg, tick, elapsed>>

\* a plain soft timer of App_Tick: if ((now - t) >= p) { ...; t = now; }
TimerAfter(now, t, p) == IF U32Ge(U32Sub(now, t), p) THEN now ELSE t

App_Tick ==
  /\ IF U32Ge(U32Sub(tick, tTank), cfg.tick_ms)
       THEN MotionTask
       ELSE UNCHANGED <<tank, env, hist, tTank, dtest>>
  /\ tSens' = TimerAfter(tick, tSens, PERIOD_SENS_MS)
  /\ tOLED' = TimerAfter(tick, tOLED, PERIOD_OLED_MS)
  /\ tUART' = TimerAfter(tick, tUART, PERIOD_UART_MS)
  /\ UNCHANGED <<mx, mres, call, period, polled, sched, uart>>

AppSysTick ==
  \E dt \in AppSteps :
    elapsed + dt <= AppHorizon /\ SysTick(dt) /\ UNCHANGED ext

NextApp == App_Tick \/ AppSysTick

SpecApp == InitApp /\ [][NextApp]_vars

\* C20: App_Tick of Core/Src/app.c keeps the phase of the motion task: each
\* time the task fires, tTank advances by an exact multiple of tick_ms.
C20_NoPhaseDrift ==
  [][tTank' # tTank =>
       LET d == U32Sub(tTank', tTank)
       IN  d[1] = 0 /\ d[2] % cfg.tick_ms = 0]_vars

(***************************************************************************)
(* The main loop of app.c (Nowy folder): App_Init has run (Tank_Init,      *)
(* DriveTest_Start, the four timers primed), and App_Tick, which polls the *)
(* four timers with App_TaskDue, is called at any moment.                  *)
(***************************************************************************)
\* this loop is followed for this many ms after App_Init
SchedHorizon == 160

\* the order in which a swapped App_Tick would run its tasks
TaskOrder_swapped == <<"Sens", "Tank", "OLED", "UART">>

\* the order in which App_Tick polls its tasks
TaskOrder == <<"Tank", "Sens", "OLED", "UART">>

InitSched ==
  /\ cfg = CfgDefault
  /\ C = 1
  /\ s = [TD_Zero EXCEPT !.tgt_L = DT_SCRIPT[1].l_pct,
                         !.tgt_R = DT_SCRIPT[1].r_pct]
  /\ gate_L_active = 0 /\ gate_R_active = 0
  /\ gate_L_until = U32(0, 0) /\ gate_R_until = U32(0, 0)
  /\ tick \in AppInitTicks /\ esc_calls = Neutral
  /\ nUpd = 0 /\ elapsed = 0
  /\ gateAge = [L |-> 0 - 1, R |-> 0 - 1]
  /\ lastNZ = [L |-> [sign |-> 0, zero |-> 0], R |-> [sign |-> 0, zero |-> 0]]
  /\ flip = [L |-> FALSE, R |-> FALSE]
  /\ stopCnt = [L |-> StopNone, R |-> StopNone]
  /\ mx = 0 /\ mres = <<>> /\ call = <<>>
  /\ tTank = App_TaskPrime(tick, cfg.tick_ms)
  /\ tSens = App_TaskPrime(tick, PERIOD_SENS_MS)
  /\ tOLED = App_TaskPrime(tick, PERIOD_OLED_MS)
  /\ tUART = App_TaskPrime(tick, PERIOD_UART_MS)
  /\ s_idx = 0 /\ s_t0 = tick /\ s_running = TRUE
  /\ period = 0 /\ polled = <<>>
  /\ SchedReset

\* the motion task of this App_Tick: DriveTest_Tick(); Tank_Update()
MotionTaskDue ==
  \E d \in {DriveTest_Tick(tick)} :
    \E u \in {UpdOf([s EXCEPT !.tgt_L = d.l, !.tgt_R = d.r],
                    gate_L_active, gate_L_until,
                    gate_R_active, gate_R_until)} :
      /\ C' = 1
      /\ gate_L_active' = u.gL.active /\ gate_L_until' = u.gL.until
      /\ gate_R_active' = u.gR.active /\ gate_R_until' = u.gR.until
      /\ s' = [tgt_L |-> d.l, tgt_R |-> d.r,
               cur_L |-> u.cur_L, cur_R |-> u.cur_R,
               flt_L |-> u.flt_L, flt_R |-> u.flt_R]
      /\ esc_calls' = <<[ch |-> "CH4", pct |-> u.out_L],
                        [ch |-> "CH1", pct |-> u.out_R]>>
      /\ nUpd' = Counted(nUpd)
      /\ gateAge' = [L |-> GateAgeAfter(u.gL, gateAge.L),
                     R |-> GateAgeAfter(u.gR, gateAge.R)]
      /\ lastNZ' = [L |-> LastNZAfter(u.out_L, lastNZ.L),
                    R |-> LastNZAfter(u.out_R, lastNZ.R)]
      /\ flip' = [L |-> FlipAfter(u.out_L, lastNZ.L),
                  R |-> FlipAfter(u.out_R, lastNZ.R)]
      /\ stopCnt' =
           IF ~d.set THEN [L |-> StopCntAfter(stopCnt.L),
                           R |-> StopCntAfter(stopCnt.R)]
           ELSE IF d.l = 0 /\ d.r = 0
             THEN [L |-> StopCntAfter([need |-> StopNeed(s.cur_L),
                                       done |-> 0]),
                   R |-> StopCntAfter([need |-> StopNeed(s.cur_R),
                                       done |-> 0])]
           ELSE [L |-> StopNone, R |-> StopNone]
      /\ s_idx' = d.idx /\ s_t0' = d.t0 /\ s_running' = d.running
      /\ UNCHANGED <<cfg, tick, elapsed>>

\* the jitter statistics after the motion task has run at now
JitterAfter(now, j) ==
  LET dt == U32Sub(now, j.lastTankExec)
      lt(a, b) == a[1] < b[1] \/ (a[1] = b[1] /\ a[2] < b[2])
  IN  IF j.lastTankExec = U32(0, 0)
        THEN [j EXCEPT !.lastTankExec = now]
        ELSE [lastTankExec |-> now,
              jMin |-> IF lt(dt, j.jMin) THEN dt ELSE j.jMin,
              jMax |-> IF lt(j.jMax, dt) THEN dt ELSE j.jMax,
              jSum |-> j.jSum + dt[1] * W16 + dt[2],
              jCnt |-> j.jCnt + 1]

App_Tick_TaskDue ==
  \E rT \in {App_TaskDue(tick, tTank, cfg.tick_ms)},
     rS \in {App_TaskDue(tick, tSens, PERIOD_SENS_MS)},
     rO \in {App_TaskDue(tick, tOLED, PERIOD_OLED_MS)},
     rU \in {App_TaskDue(tick, tUART, PERIOD_UART_MS)} :
    LET isDue(x) == CASE x = "Tank" -> rT.due [] x = "Sens" -> rS.due
                      [] x = "OLED" -> rO.due [] x = "UART" -> rU.due
        j1 == IF rT.due THEN JitterAfter(tick, jit) ELSE jit
    IN  /\ tTank' = rT.last /\ tSens' = rS.last
        /\ tOLED' = rO.last /\ tUART' = rU.last
        /\ IF rT.due THEN MotionTaskDue
                     ELSE UNCHANGED <<tank, env, hist, dtest>>
        /\ s_sensPhase' = IF rS.due THEN 1 - s_sensPhase ELSE s_sensPhase
        /\ jit' = IF rU.due
                    THEN [j1 EXCEPT !.jMin = U32(W16 - 1, W16 - 1),
                                    !.jMax = U32(0, 0),
                                    !.jSum = 0, !.jCnt = 0]
                    ELSE j1
        /\ ran' = SelectSeq(TaskOrder, isDue)
        /\ rate' = [n |-> rate.n + (IF rT.due THEN 1 ELSE 0),
                    last |-> elapsed,
                    ok |-> rate.ok /\ elapsed - rate.last < cfg.tick_ms]
        /\ UNCHANGED <<mx, mres, call, period, polled, uart>>

SchedSysTick ==
  \E dt \in AppSteps :
    elapsed + dt <= SchedHorizon /\ SysTick(dt) /\ UNCHANGED ext

NextSched == App_Tick_TaskDue \/ SchedSysTick

SpecSched == InitSched /\ [][NextSched]_vars

\* C22: the tasks that one App_Tick runs, it runs in the order motion,
\* sensors, display, telemetry, each at most once.
C22_FixedTaskOrder ==
  LET prio(x) == CASE x = "Tank" -> 1 [] x = "Sens" -> 2
                   [] x = "OLED" -> 3 [] x = "UART" -> 4
  IN  \A i, j \in 1 .. Len(ran) : i < j => prio(ran[i]) < prio(ran[j])

\* the first App_Tick after App_Init found all four timers due
C22_Witness ==
  /\ ran = <<"Tank", "Sens", "OLED", "UART">>
  /\ elapsed = 0 /\ rate.n = 1 /\ nUpd = 1 /\ s_sensPhase = 1

DriveHorizon == 2000

DriveSteps == {300, 1000}

DriveTest_Start ==
  /\ elapsed < DriveHorizon
  /\ s_idx' = 0 /\ s_running' = TRUE /\ s_t0' = tick
  /\ Tank_SetTarget(DT_SCRIPT[1].l_pct, DT_SCRIPT[1].r_pct)
  /\ UNCHANGED <<mx, mres, call, app, period, polled, sched, uart>>

DriveTest_TickCall ==
  \E d \in {DriveTest_Tick(tick)} :
    /\ s_idx' = d.idx /\ s_t0' = d.t0 /\ s_running' = d.running
    /\ IF d.set THEN Tank_SetTarget(d.l, d.r)
       ELSE UNCHANGED <<tank, env, hist>>
    /\ polled' = [now |-> tick, due |-> d.set]
    /\ UNCHANGED <<mx, mres, call, app, period, sched, uart>>

\* no Tank_Update runs here, so no gate and no written percentage ages
DriveClock(dt) ==
  /\ \/ elapsed + dt <= DriveHorizon
     \/ s_running /\ ~U32Ge(U32Sub(tick, s_t0), DT_SCRIPT[s_idx + 1].dur_ms)
  /\ tick' = U32Add(tick, dt)
  /\ elapsed' = Min(DriveHorizon, elapsed + dt)
  /\ UNCHANGED <<tank, esc_calls, nUpd, hist, ext>>

NextDrive ==
  \/ DriveTest_Start
  \/ DriveTest_TickCall
  \/ \E dt \in DriveSteps : DriveClock(dt)

\* The main loop never stops calling DriveTest_Tick (a call that finds the
\* step not over and was made at this very tick before changes nothing),
\* and the SysTick interrupt never stops counting.
SpecDrive ==
  /\ Init /\ [][NextDrive]_vars
  /\ WF_vars(DriveTest_TickCall)
  /\ WF_tick(\E dt \in DriveSteps : DriveClock(dt))

\* C38: the sequencer takes the steps of DT_SCRIPT one by one and in order:
\* s_idx grows by one, only when the duration of the current step is over,
\* and the targets are then those of the next step; the targets change at
\* no other moment but DriveTest_Start; while running, s_idx < DT_LEN; a
\* running script always comes to its end, where the targets are (0, 0),
\* running is false and s_idx is DT_LEN; and a DriveTest_Tick that finds
\* running false changes neither the targets nor the sequencer.
C38_ScriptRunsToItsEnd ==
  /\ [](s_running => s_idx < DT_LEN)
  /\ [][(s_idx' # s_idx /\ s_idx' # 0) =>
         /\ s_running /\ s_idx' = s_idx + 1 /\ s_t0' = tick
         /\ U32Ge(U32Sub(tick, s_t0), DT_SCRIPT[s_idx + 1].dur_ms)
         /\ IF s_idx' < DT_LEN
              THEN /\ s_running'
                   /\ s'.tgt_L = DT_SCRIPT[s_idx' + 1].l_pct
                   /\ s'.tgt_R = DT_SCRIPT[s_idx' + 1].r_pct
              ELSE ~s_running' /\ s'.tgt_L = 0 /\ s'.tgt_R = 0]_vars
  /\ [][(s'.tgt_L # s.tgt_L \/ s'.tgt_R # s.tgt_R) =>
         \/ s_idx' = s_idx + 1
         \/ s_running' /\ s_idx' = 0 /\ s_t0' = tick
              /\ s'.tgt_L = DT_SCRIPT[1].l_pct
              /\ s'.tgt_R = DT_SCRIPT[1].r_pct]_vars
  /\ [][(~s_running /\ polled' # polled) => UNCHANGED <<s, dtest>>]_vars
  /\ s_running ~> (~s_running /\ s_idx = DT_LEN
                     /\ s.tgt_L = 0 /\ s.tgt_R = 0)

\* the script was started and has run to its end across the roll-over of
\* the counter: the last DriveTest_Tick found the fourth step over
C38_Witness ==
  /\ ~s_running /\ s_idx = DT_LEN /\ s.tgt_L = 0 /\ s.tgt_R = 0
  /\ polled # <<>> /\ polled.due /\ polled.now = s_t0
  /\ s_t0[1] = 0 /\ C = 1 /\ elapsed = DriveHorizon

(***************************************************************************)
(* The TX queue of debug_uart.c. DebugUART_Write runs in the main loop:    *)
(* its critical section is one step, the try_kick_tx that follows is taken *)
(* statement by statement. HAL_UART_TxCpltCallback runs in the UART        *)
(* interrupt, which comes when a transmission is complete and between any  *)
(* two steps of the main loop; the main loop stands still until the        *)
(* callback, try_kick_tx included, has returned. HAL_UART_Transmit_IT      *)
(* starts the transmission or refuses to.                                  *)
(***************************************************************************)
MaxBytes == 8

\* (s_head - s_tail) % DEBUG_UART_RB_SIZE in size_t, 32 bits wide
rb_used(head, tail) ==
  IF head >= tail THEN (head - tail) % DEBUG_UART_RB_SIZE
  ELSE ((((W16 % DEBUG_UART_RB_SIZE) * (W16 % DEBUG_UART_RB_SIZE))
           % DEBUG_UART_RB_SIZE) + DEBUG_UART_RB_SIZE + head - tail)
         % DEBUG_UART_RB_SIZE

\* a faulty rb_free that keeps no slot empty
rb_free_all(head, tail) == DEBUG_UART_RB_SIZE - rb_used(head, tail)

rb_free(head, tail) == DEBUG_UART_RB_SIZE - 1 - rb_used(head, tail)

\* a faulty loop that does not count what it drops
RECURSIVE enqueue_silent(_, _, _)
enqueue_silent(q, p, written) ==
  IF written < Len(p) /\ rb_free(q.head, s_tail) # 0
    THEN enqueue_silent([q EXCEPT !.rb[q.head] = p[written + 1],
                                  !.head = (@ + 1) % DEBUG_UART_RB_SIZE],
                        p, written + 1)
  ELSE [q EXCEPT !.written = written]

\* the loop of DebugUART_Write over the bytes p, from p[written + 1] on;
\* q is [rb, head, dropped, written]
RECURSIVE enqueue(_, _, _)
enqueue(q, p, written) ==
  IF written < Len(p)
    THEN IF rb_free(q.head, s_tail) = 0
           THEN [q EXCEPT !.dropped = @ + (Len(p) - written),
                          !.written = written]
           ELSE enqueue([q EXCEPT !.rb[q.head] = p[written + 1],
                                  !.head = (@ + 1) % DEBUG_UART_RB_SIZE],
                        p, written + 1)
  ELSE [q EXCEPT !.written = written]

\* DebugUART_Write(data, len), data being the next len bytes; it goes on
\* into try_kick_tx unless len is 0
DebugUART_Write(len) ==
  /\ kick.main.at = "idle" /\ kick.isr.at = "idle"
  /\ offered + len <= MaxBytes
  /\ \E q \in {enqueue([rb |-> s_tx_rb, head |-> s_head,
                        dropped |-> s_tx_dropped, written |-> 0],
                       [i \in 1 .. len |-> offered + i], 0)} :
       /\ s_tx_rb' = q.rb /\ s_head' = q.head /\ s_tx_dropped' = q.dropped
       /\ accepted' = accepted \o [i \in 1 .. q.written |-> offered + i]
       /\ wret' = [len |-> len, n |-> q.written]
  /\ offered' = offered + len
  /\ kick' = IF len = 0 THEN kick ELSE [kick EXCEPT !.main.at = "busy"]
  /\ UNCHANGED <<s_tail, s_tx_busy, s_active_len, flight, handed>>
  /\ UNCHANGED <<tank, env, hist, mx, mres, call, app, dtest, period, polled,
                 sched>>

\* the next statement of the try_kick_tx in progress in context c (the
\* main loop or the interrupt): the test of s_tx_busy, the reads of s_head
\* and s_tail, the writes of s_active_len and s_tx_busy, the call of
\* HAL_UART_Transmit_IT. The HAL refuses while a transmission is in
\* progress, and may refuse otherwise.
try_kick_tx(c) ==
  /\ kick[c].at # "idle" /\ (c = "main" => kick.isr.at = "idle")
  /\ \E f \in {kick[c]}, done \in {[at |-> "idle", head |-> 0, tail |-> 0]} :
       \E chunk \in {IF f.head > f.tail THEN f.head - f.tail
                     ELSE DEBUG_UART_RB_SIZE - f.tail} :
         CASE f.at = "busy" ->
                /\ kick' = [kick EXCEPT ![c] = IF s_tx_busy # 0 THEN done
                                               ELSE [f EXCEPT !.at = "head"]]
                /\ UNCHANGED <<s_active_len, s_tx_busy, flight, handed>>
           [] f.at = "head" ->
                /\ kick' = [kick EXCEPT ![c] = [f EXCEPT !.at = "tail",
                                                         !.head = s_head]]
                /\ UNCHANGED <<s_active_len, s_tx_busy, flight, handed>>
           [] f.at = "tail" ->
                /\ kick' = [kick EXCEPT ![c] = IF f.head = s_tail THEN done
                                               ELSE [f EXCEPT !.at = "len",
                                                              !.tail = s_tail]]
                /\ UNCHANGED <<s_active_len, s_tx_busy, flight, handed>>
           [] f.at = "len" ->
                /\ s_active_len' = chunk
                /\ kick' = [kick EXCEPT ![c].at = "flag"]
                /\ UNCHANGED <<s_tx_busy, flight, handed>>
           [] f.at = "flag" ->
                /\ s_tx_busy' = 1
                /\ kick' = [kick EXCEPT ![c].at = "hal"]
                /\ UNCHANGED <<s_active_len, flight, handed>>
           [] f.at = "hal" ->
                /\ kick' = [kick EXCEPT ![c] = done]
                /\ \/ /\ flight = <<>>
                      /\ flight' = [i \in 1 .. chunk |-> s_tx_rb[f.tail + i - 1]]
                      /\ handed' = handed \o flight'
                      /\ UNCHANGED <<s_active_len, s_tx_busy>>
                   \/ /\ s_tx_busy' = 0 /\ s_active_len' = 0
                      /\ UNCHANGED <<flight, handed>>
  /\ UNCHANGED <<s_tx_rb, s_head, s_tail, s_tx_dropped, offered, accepted,
                 wret>>
  /\ UNCHANGED <<tank, env, hist, mx, mres, call, app, dtest, period, polled,
                 sched>>

\* the transmission is complete: the callback up to its try_kick_tx
HAL_UART_TxCpltCallback ==
  /\ flight # <<>> /\ kick.isr.at = "idle"
  /\ s_tail' = (s_tail + s_active_len) % DEBUG_UART_RB_SIZE
  /\ s_active_len' = 0 /\ s_tx_busy' = 0
  /\ flight' = <<>>
  /\ kick' = [kick EXCEPT !.isr.at = "busy"]
  /\ UNCHANGED <<s_tx_rb, s_head, s_tx_dropped, offered, accepted, handed,
                 wret>>
  /\ UNCHANGED <<tank, env, hist, mx, mres, call, app, dtest, period, polled,
                 sched>>

NextUart ==
  \/ \E len \in 0 .. DEBUG_UART_RB_SIZE + 1 : DebugUART_Write(len)
  \/ \E c \in {"main", "isr"} : try_kick_tx(c)
  \/ HAL_UART_TxCpltCallback

\* Every transmission that was started completes, and the processor goes
\* on with the try_kick_tx it is in. Nothing makes the program call
\* DebugUART_Write again.
SpecUart ==
  /\ Init /\ [][NextUart]_vars
  /\ WF_uart(HAL_UART_TxCpltCallback)
  /\ WF_uart(\E c \in {"main", "isr"} : try_kick_tx(c))

\* C34: however DebugUART_Write and the TX-complete interrupt interleave,
\* HAL_UART_Transmit_IT is not called while a transmission is in flight,
\* and s_tx_busy is 1 and s_active_len its length while one is; the bytes
\* accepted and not yet transmitted are at most DEBUG_UART_RB_SIZE - 1 and
\* each is still in its slot of the buffer; and the bytes of the
\* transmissions started are the bytes accepted, in their order, none
\* left out and none twice.
C34_QueueIntact ==
  /\ \A c \in {"main", "isr"} : kick[c].at = "hal" => flight = <<>>
  /\ flight # <<>> => s_tx_busy = 1 /\ s_active_len = Len(flight)
  /\ Len(accepted) - (Len(handed) - Len(flight)) <= DEBUG_UART_RB_SIZE - 1
  /\ \A k \in 1 .. Len(accepted) :
       k > Len(handed) - Len(flight)
         => s_tx_rb[(k - 1) % DEBUG_UART_RB_SIZE] = accepted[k]
  /\ Len(handed) <= Len(accepted)
  /\ \A k \in 1 .. Len(handed) : handed[k] = accepted[k]

\* the interrupt came while the main loop was about to test s_tx_busy: the
\* callback has marked the next chunk, from the tail to the end of the
\* buffer, and is about to start it; the head has wrapped round
C34_Witness ==
  /\ kick.main.at = "busy" /\ kick.isr.at = "hal"
  /\ s_head < s_tail /\ s_tx_busy = 1
  /\ s_active_len = DEBUG_UART_RB_SIZE - s_tail
  /\ Len(handed) > 0 /\ Len(accepted) > Len(handed)

\* C35 as stated: every byte accepted is handed to the UART in the end,
\* with no further DebugUART_Write, provided every transmission started
\* completes, whether or not HAL_UART_Transmit_IT refuses a chunk.
C35_AcceptedBytesGoOut ==
  \A k \in 1 .. MaxBytes : (Len(accepted) >= k) ~> (Len(handed) >= k)

\* C39: DebugUART_Write(data, len) waits for nothing: in its one critical
\* section it enqueues the first n bytes of data, n being len or the free
\* space if that is less, returns n and adds len - n to s_tx_dropped,
\* which is nothing when there is room for len bytes.
C39_WriteCountsDrops ==
  [][(wret' # wret \/ offered' # offered) =>
       \E free \in {DEBUG_UART_RB_SIZE - 1
                      - (Len(accepted) - (Len(handed) - Len(flight)))} :
         /\ wret'.len = offered' - offered
         /\ wret'.n = Min(wret'.len, free)
         /\ accepted' = accepted \o [i \in 1 .. wret'.n |-> offered + i]
         /\ s_tx_dropped' = s_tx_dropped + (wret'.len - wret'.n)
         /\ wret'.len <= free => s_tx_dropped' = s_tx_dropped
         /\ UNCHANGED <<s_tail, s_tx_busy, s_active_len, flight, handed>>]_vars

\* with two bytes waiting, one of them in flight, DebugUART_Write was
\* given five bytes: it took one and dropped four
C39_Witness ==
  /\ wret = [len |-> 5, n |-> 1] /\ s_tx_dropped = 4
  /\ flight # <<>> /\ Len(accepted) = 3 /\ accepted[3] = 3
  /\ kick.main.at = "busy"

====
